---- MODULE Spec2Model ----
(***************************************************************************)
(* Credential and session-token lifecycle of the participant API           *)
(* (services/participant-api/apihandlers/authentication.go): login,        *)
(* signup, refresh-token rotation, revoke-all, email verification and OTP  *)
(* step-up, over the user store, the renew-token ledger, the               *)
(* verification-token store and the OTP store.                             *)
(*                                                                         *)
(* The handlers are translated from authentication.go: each store round    *)
(* trip of a handler is an action, the request keeps the copies it read in *)
(* its call record, and the response it writes is an operator of the       *)
(* request and the state the request meets.  The store layer               *)
(* (pkg/db/participant-user), pkg/user-management and its utils package    *)
(* live in other packages; their operations follow the design              *)
(* description, section 4.                                                 *)
(***************************************************************************)
EXTENDS Integers, Sequences, FiniteSets, TLC

VARIABLES
    now,        \* time.Now().Unix()
    users,      \* user store: user id -> account document
    ledger,     \* renew-token ledger: set of RenewToken documents
    otps,       \* OTP store: user id -> pending one-time code
    nextTok,    \* source of GenerateUniqueTokenString
    sessions,   \* signed session claims minted so far
    calls,      \* refreshToken requests in flight, one per worker
    served,     \* history: refresh tokens returned in success responses
    refreshed,  \* history: the refreshToken requests answered so far
    revokedAll, \* history: users whose tokens were revoked and who have not logged in since
    revoked,    \* history: the refresh tokens that had been served when their user revoked
    tempTokens, \* verification-token store: set of TempToken documents
    nextTemp,   \* source of the verification-token strings
    pending,    \* prepAndSendEmailVerification goroutines started and not yet run
    outbox,     \* messages handed to the mail transport
    resendCalls, \* resendEmailVerification requests in flight, one per worker
    resendLog,  \* history: the resend requests that were accepted, in order
    expiredUse, \* history: routes whose handler ran for an expired session token
    validated,  \* history: the accounts the validate endpoint confirmed a token of
    deletedUsers, \* ids of the accounts that were deleted
    nextProfile, \* source of primitive.NewObjectID for profiles and contacts
    argonParams, \* pwhash: argon2Memory, argon2Iterations, argon2Parallelism
    hashed,     \* history: the passwords hashed and the encoded hashes returned
    compared,   \* history: the last ComparePasswordWithHash call and how it ended
    lastThrottled, \* history: when the throttle last turned a login away, 0 for never
    signupCalls, \* signupWithEmail requests in flight, one per worker
    loginCalls, \* loginWithEmail requests in flight, one per worker
    otpCalls,   \* verifyOTP requests in flight, one per worker
    verifyCalls, \* verifyEmail requests in flight, one per worker
    requestCalls \* requestOTP requests in flight, one per worker

\* the verification-token side of the state
verifVars == <<tempTokens, nextTemp, pending, outbox, resendCalls, resendLog>>

\* the history of the validate endpoint and of the account deletions
\* the password-hashing side of the state
hashVars == <<argonParams, hashed, compared>>

\* the requests of the handlers that make several store calls
callVars == <<signupCalls, loginCalls, otpCalls, verifyCalls, requestCalls>>

restVars == <<validated, deletedUsers, nextProfile, hashVars, lastThrottled, callVars>>

vars == <<now, users, ledger, otps, nextTok, sessions, calls, served, refreshed,
          revokedAll, revoked, tempTokens, nextTemp, pending, outbox, resendCalls,
          resendLog, expiredUse, validated, deletedUsers, nextProfile, hashVars,
          lastThrottled, callVars>>

-----------------------------------------------------------------------------
(* Bounds of the model *)

StartTime == 1000
TickStep == 300
MaxTicks == 1
ShortStep == 200
ShortTicks == 2
LongStep == 3500
MaxTokens == 3
MaxAttempts == 11
MaxTempTokens == 2
MaxProfiles == 3
MaxHashes == 2
MaxRefs == 3
CooldownStep == 30
CooldownTicks == 3

(* Program constants *)

allowedPasswordAttempts == 10
loginFailedAttemptWindow == 5 * 60
signupRateLimitWindow == 5 * 60
emailVerificationMessageCooldown == 60
loginAttemptRetention == 3600
resetTriggerRetention == 7200

(* Configuration (set once at startup) *)

RenewTokenLifetime == 300
OTPLifetime == 250
AccessTokenTTL == 150
EmailContactVerificationTokenTTL == 250
maxNewUsersPer5Minute == 1

AllowedInstanceIDs == {"i1", "i2"}
InstanceIDs == {"i1", "i2", "ix"}
\* the instances that the requests of most scenarios name: an allowed one
\* and one that is not
NamedInstanceIDs == {"i1", "ix"}
UserIDs == {"u1", "u2", "u3"}
Emails == {"e1", "e2"}
Passwords == {"p1", "p2"}
OTPCodes == {"c1"}
Workers == {"w1", "w2"}

NoToken == 0          \* the empty string of a token field
GarbageToken == -1    \* a string the server never generated
NoClaims == [Subject |-> "", InstanceID |-> ""]
NoProfile == <<>>          \* the empty profile id
NoUser == [instanceID |-> "", accountID |-> ""]
NoOTP == [code |-> "", type |-> "", expiresAt |-> 0]
EmptyOTPMap == <<>>

MaxTime == StartTime + MaxTicks * TickStep

-----------------------------------------------------------------------------
(* pkg/user-management/pwhash *)

argon2Version == 19
argon2SaltLength == 16
argon2KeyLength == 32

\* ranges of the parameter types; the numbers of the model stay below 2^31,
\* so that every natural number is a uint32
Uint32 == Nat
Uint8 == 0 .. 255
ToUint32(n) == n
ToUint8(n) == n % 256

\* the packaged values of argon2Memory, argon2Iterations, argon2Parallelism
DefaultParams == [memory |-> 64 * 1024, iterations |-> 4, parallelism |-> 1]

\* A byte string is its length and what it was made from.
Bytes(n, of) == [len |-> n, of |-> of]
EmptyBytes == Bytes(0, <<>>)

\* generateRandomBytes(argon2SaltLength): salt names the outcome of rand.Read
RandomSalt(salt) == Bytes(argon2SaltLength, <<"rand", salt>>)

\* argon2.IDKey panics when the number of rounds or the parallelism degree is
\* below 1, and when it has to produce a key of length 0
IDKeyPanics(params, keyLen) ==
    params.iterations < 1 \/ params.parallelism < 1 \/ keyLen < 1

\* argon2.IDKey: a deterministic, collision-free digest of its arguments
IDKey(password, salt, params, keyLen) ==
    Bytes(keyLen, <<"argon2id", password, salt, params>>)

\* An encoded hash is written as the fields strings.Split(encodedHash, "$")
\* yields.  A field is one of
\*   <<"text", s>>            the characters of s
\*   <<"v=", n>>              "v=" and the decimal digits of n
\*   <<"m=,t=,p=", m, t, p>>  "m=", m, ",t=", t, ",p=", p in decimal digits
\*   <<"base64", b>>          base64.RawStdEncoding of the non-empty bytes b
Text(s) == <<"text", s>>
VersionField(n) == <<"v=", n>>
ParamsField(m, t, p) == <<"m=,t=,p=", m, t, p>>
Base64Field(b) == IF b.len = 0 THEN Text("") ELSE <<"base64", b>>

\* the empty string, as its one empty field
NoPassword == << Text("") >>

\* no call of ComparePasswordWithHash yet
NoCompare ==
    [called |-> FALSE, encodedHash |-> NoPassword, password |-> "", panics |-> FALSE,
     match |-> FALSE, err |-> ""]

\* fmt.Sscanf(field, "v=%d", &version) into an int
ScanVersion(field) ==
    IF field[1] = "v=" THEN [err |-> "", version |-> field[2]]
    ELSE [err |-> "fmt.Sscanf", version |-> 0]

\* a hashParams nothing was scanned into
ZeroParams == [memory |-> 0, iterations |-> 0, parallelism |-> 0]

\* fmt.Sscanf(field, "m=%d,t=%d,p=%d", ...) into uint32, uint32, uint8
ScanParams(field) ==
    IF field[1] = "m=,t=,p=" /\ field[2] \in Uint32 /\ field[3] \in Uint32
       /\ field[4] \in Uint8
    THEN [err |-> "", params |-> [memory |-> field[2], iterations |-> field[3],
                                  parallelism |-> field[4]]]
    ELSE [err |-> "fmt.Sscanf", params |-> ZeroParams]

\* base64.RawStdEncoding.DecodeString(field): "argon2id" is eight characters
\* of the alphabet and decodes to six bytes, "=" and "," are not in the alphabet
DecodeString(field) ==
    CASE field[1] = "base64" -> [err |-> "", bytes |-> field[2]]
      [] field = Text("") -> [err |-> "", bytes |-> EmptyBytes]
      [] field = Text("argon2id") -> [err |-> "", bytes |-> Bytes(6, <<"argon2id">>)]
      [] OTHER -> [err |-> "base64.CorruptInputError", bytes |-> EmptyBytes]

\* the values decodeHash returns with an error
DecodeError(err) ==
    [err |-> err, p |-> ZeroParams, salt |-> EmptyBytes, hash |-> EmptyBytes]

decodeHash(encodedHash) ==
    IF Len(encodedHash) # 6 THEN DecodeError("ErrInvalidHash")
    ELSE LET v == ScanVersion(encodedHash[3])
             p == ScanParams(encodedHash[4])
             salt == DecodeString(encodedHash[5])
             hash == DecodeString(encodedHash[6])
         IN  IF v.err # "" THEN DecodeError(v.err)
             ELSE IF v.version # argon2Version THEN DecodeError("ErrIncompatibleVersion")
             ELSE IF p.err # "" THEN DecodeError(p.err)
             ELSE IF salt.err # "" THEN DecodeError(salt.err)
             ELSE IF hash.err # "" THEN DecodeError(hash.err)
             ELSE [err |-> "", p |-> p.params, salt |-> salt.bytes, hash |-> hash.bytes]

\* faulty variant: the key is derived with the parameters of the process
CompareParamsOfProcess(p) == argonParams

\* the parameters ComparePasswordWithHash derives the other key with
CompareParams(p) == p

\* HashPassword panics in argon2.IDKey
HashPanics == IDKeyPanics(argonParams, argon2KeyLength)

HashPassword(password, salt) ==
    << Text(""), Text("argon2id"), VersionField(argon2Version),
       ParamsField(argonParams.memory, argonParams.iterations, argonParams.parallelism),
       Base64Field(RandomSalt(salt)),
       Base64Field(IDKey(password, RandomSalt(salt), argonParams, argon2KeyLength)) >>

\* ComparePasswordWithHash panics in argon2.IDKey
ComparePanics(encodedHash) ==
    LET d == decodeHash(encodedHash)
    IN  d.err = "" /\ IDKeyPanics(CompareParams(d.p), d.hash.len)

\* <<match, err>> of a call that returns
ComparePasswordWithHash(encodedHash, password) ==
    LET d == decodeHash(encodedHash)
    IN  IF d.err # "" THEN <<FALSE, d.err>>
        ELSE <<IDKey(password, d.salt, CompareParams(d.p), d.hash.len) = d.hash, "">>

-----------------------------------------------------------------------------
(* pkg/user-management/utils: attempt tracking *)

RECURSIVE CountRecent(_, _, _)
CountRecent(attempts, window, t) ==
    IF attempts = <<>> THEN 0
    ELSE (IF Head(attempts) >= t - window THEN 1 ELSE 0)
         + CountRecent(Tail(attempts), window, t)

HasMoreAttemptsRecently(attempts, maxAllowed, window) ==
    CountRecent(attempts, window, now) >= maxAllowed

RemoveAttemptsOlderThan(attempts, window) ==
    SelectSeq(attempts, LAMBDA a : a >= now - window)

-----------------------------------------------------------------------------
(* User store *)

isInstanceAllowed(instanceID) == instanceID \in AllowedInstanceIDs

UserExists(instanceID, userID) ==
    userID \in DOMAIN users /\ users[userID].instanceID = instanceID

UsersByAccountID(instanceID, email) ==
    {u \in DOMAIN users : users[u].instanceID = instanceID /\ users[u].accountID = email}

SaveFailedLoginAttempt(userID) ==
    [users EXCEPT ![userID].failedLoginAttempts = Append(@, now)]

CountRecentlyCreatedUsers(instanceID, window) ==
    Cardinality({u \in DOMAIN users : /\ users[u].instanceID = instanceID
                                      /\ users[u].createdAt > now - window})

\* ids of the profile and the contact info created with an account
\* (primitive.NewObjectID: unique)
NewObjectID(n) == <<"object", "id", n>>
ProfileID(email) == <<"profile", email>>
ContactID(email) == <<"contact", email>>

InitNewEmailUser(instanceID, email, encodedHash) ==
    [instanceID |-> instanceID, accountID |-> email, type |-> "email",
     password |-> encodedHash, accountConfirmedAt |-> 0,
     failedLoginAttempts |-> <<>>, passwordResetTriggers |-> <<>>,
     createdAt |-> now, lastLogin |-> 0, lastTokenRefresh |-> 0,
     markedForDeletion |-> 0,
     profiles |-> << [id |-> ProfileID(email), mainProfile |-> TRUE,
                      alias |-> email, createdAt |-> now] >>,
     contactInfos |-> << [id |-> ContactID(email), type |-> "email", email |-> email,
                          phone |-> "", confirmedAt |-> 0,
                          confirmationLinkSentAt |-> 0] >>,
     sendNewsletterTo |-> <<>>]

\* umUtils.GetMainAndOtherProfiles: <<id of the main profile, ids of the others>>
GetMainAndOtherProfiles(user) ==
    LET main == SelectSeq(user.profiles, LAMBDA pr : pr.mainProfile)
        others == SelectSeq(user.profiles, LAMBDA pr : ~pr.mainProfile)
    IN  << IF main = <<>> THEN NoProfile ELSE main[1].id,
           [i \in DOMAIN others |-> others[i].id] >>

\* the contact infos the loops of the contact methods stop at: the email
\* of the contact info for type "email", its phone for type "phone"
ContactIndexes(user, t, addr) ==
    {i \in DOMAIN user.contactInfos :
        \/ t = "email" /\ user.contactInfos[i].email = addr
        \/ t = "phone" /\ user.contactInfos[i].phone = addr}

FirstContact(user, t, addr) ==
    CHOOSE i \in ContactIndexes(user, t, addr) :
        \A j \in ContactIndexes(user, t, addr) : i <= j

FindContactInfoByTypeAndAddr(user, t, addr) ==
    IF ContactIndexes(user, t, addr) = {}
    THEN [found |-> FALSE, ci |-> [id |-> <<>>, type |-> "", email |-> "",
                                   phone |-> "", confirmedAt |-> 0,
                                   confirmationLinkSentAt |-> 0]]
    ELSE [found |-> TRUE, ci |-> user.contactInfos[FirstContact(user, t, addr)]]

\* User.SetContactInfoVerificationSent
SetContactInfoVerificationSent(user, t, addr) ==
    IF ContactIndexes(user, t, addr) = {} THEN user
    ELSE [user EXCEPT
            !.contactInfos[FirstContact(user, t, addr)].confirmationLinkSentAt = now]

\* User.ConfirmContactInfo
ConfirmContactInfoFails(user, t, addr) == ContactIndexes(user, t, addr) = {}

ConfirmContactInfo(user, t, addr) ==
    IF ConfirmContactInfoFails(user, t, addr) THEN user
    ELSE [user EXCEPT !.contactInfos[FirstContact(user, t, addr)].confirmedAt = now]

-----------------------------------------------------------------------------
(* Profiles of a user (participantuser.User) *)

ProfileIndexes(user, id) == {i \in DOMAIN user.profiles : user.profiles[i].id = id}

\* the profile the loop of UpdateProfile, FindProfile and RemoveProfile
\* stops at
FirstProfile(user, id) ==
    CHOOSE i \in ProfileIndexes(user, id) : \A j \in ProfileIndexes(user, id) : i <= j

\* User.AddProfile: id is the new object id
AddProfile(user, p, id) ==
    [user EXCEPT !.profiles = Append(@, [p EXCEPT !.id = id, !.createdAt = now])]

UpdateProfileError(user, p) ==
    IF ProfileIndexes(user, p.id) = {} THEN "profile with given ID not found" ELSE ""

UpdateProfile(user, p) ==
    IF UpdateProfileError(user, p) # "" THEN user
    ELSE LET i == FirstProfile(user, p.id)
         IN  [user EXCEPT !.profiles[i] =
                 [p EXCEPT !.mainProfile = user.profiles[i].mainProfile]]

RemoveProfileError(user, id) ==
    IF ProfileIndexes(user, id) = {} THEN "profile with given ID not found"
    ELSE IF user.profiles[FirstProfile(user, id)].mainProfile
    THEN "cannot remove main profile"
    ELSE ""

RemoveProfile(user, id) ==
    IF RemoveProfileError(user, id) # "" THEN user
    ELSE LET i == FirstProfile(user, id)
         IN  [user EXCEPT !.profiles =
                 SubSeq(@, 1, i - 1) \o SubSeq(@, i + 1, Len(@))]

-----------------------------------------------------------------------------
(* Verification-token store *)

TempTokenDoc(token, instanceID, userID, purpose, info, ttl) ==
    [token |-> token, instanceID |-> instanceID, userID |-> userID,
     purpose |-> purpose, info |-> info, expiresAt |-> now + ttl]

\* the value of a key of the info map; "" for a key that is not there
InfoGet(info, key) == IF key \in DOMAIN info THEN info[key] ELSE ""

ContactInfoOf(email) == [k \in {"type", "email"} |-> IF k = "type" THEN "email" ELSE email]

TempTokenLookup(token) == {r \in tempTokens : r.token = token}

\* validateTempToken: the record of the token, if it is known, not expired
\* and of one of the purposes
TempTokenValid(token, purposes) ==
    \E r \in TempTokenLookup(token) : r.expiresAt > now /\ r.purpose \in purposes

validateTempToken(token, purposes) ==
    CHOOSE r \in TempTokenLookup(token) : r.expiresAt > now /\ r.purpose \in purposes

DeleteAllTempTokenForUser(instanceID, userID, purpose) ==
    {r \in tempTokens : ~(/\ r.instanceID = instanceID
                          /\ r.userID = userID
                          /\ r.purpose = purpose)}

-----------------------------------------------------------------------------
(* Renew-token ledger *)

RenewTokenDoc(instanceID, userID, token) ==
    [instanceID |-> instanceID, userID |-> userID, renewToken |-> token,
     nextToken |-> NoToken, expiresAt |-> now + RenewTokenLifetime]

CreateRenewTokenFails(led, token) == \E r \in led : r.renewToken = token

CreateRenewToken(led, instanceID, userID, token) ==
    IF CreateRenewTokenFails(led, token) THEN led
    ELSE led \cup {RenewTokenDoc(instanceID, userID, token)}

\* faulty variant: the filter does not name the user
MatchingTokensOfAnyUser(led, instanceID, userID, renewToken) ==
    {r \in led : /\ r.instanceID = instanceID
                 /\ r.renewToken = renewToken
                 /\ r.expiresAt > now}

\* the documents the filter of the find-and-modify selects
MatchingRenewTokens(led, instanceID, userID, renewToken) ==
    {r \in led : /\ r.instanceID = instanceID
                 /\ r.userID = userID
                 /\ r.renewToken = renewToken
                 /\ r.expiresAt > now}

\* the document after the update: nextToken is set only if none is staged
StageNext(r, nextToken) ==
    IF r.nextToken = NoToken THEN [r EXCEPT !.nextToken = nextToken] ELSE r

FindAndUpdateRenewToken(led, instanceID, userID, renewToken, nextToken) ==
    LET found == MatchingRenewTokens(led, instanceID, userID, renewToken)
    IN  IF found = {} THEN [err |-> TRUE, rt |-> RenewTokenDoc("", "", NoToken), ledger |-> led]
        ELSE LET r == CHOOSE x \in found : TRUE
                 upd == StageNext(r, nextToken)
             IN  [err |-> FALSE, rt |-> upd, ledger |-> (led \ {r}) \cup {upd}]

DeleteRenewTokensForUser(led, instanceID, userID) ==
    {r \in led : ~(r.instanceID = instanceID /\ r.userID = userID)}

-----------------------------------------------------------------------------
(* Session tokens (pkg/jwt-handling) *)

GenerateNewParticipantUserToken(ttl, subject, instanceID, mainProfileID, confirmed, otherProfileIDs, lastOTP) ==
    [Subject |-> subject, InstanceID |-> instanceID,
     MainProfileID |-> mainProfileID, OtherProfileIDs |-> otherProfileIDs,
     AccountConfirmed |-> confirmed, LastOTPProvided |-> lastOTP,
     ExpiresAt |-> now + ttl]

\* mw.GetAndValidateParticipantUserJWT and ...WithIgnoringExpiration: the
\* token was signed by this service and, unless expiry is ignored, has not
\* expired
ValidateParticipantUserJWT(token, ignoreExpiration) ==
    /\ token \in sessions
    /\ ignoreExpiration \/ token.ExpiresAt > now

\* AddParticipantAuthAPI: the routes behind a session-token middleware, and
\* the one whose middleware ignores the expiry of the token
ProtectedRoutes ==
    {"/auth/token/renew", "/auth/token/validate", "/auth/token/revoke",
     "/auth/resend-email-verification", "/otp/request", "/otp/verify"}

\* faulty variant: revoke is registered like renew
IgnoresExpirationOnRevoke(route) ==
    route \in {"/auth/token/renew", "/auth/token/revoke"}

RouteIgnoresExpiration(route) == route = "/auth/token/renew"

-----------------------------------------------------------------------------
(* Responses *)

Response(status, error, accessToken, refreshToken) ==
    [status |-> status, error |-> error,
     accessToken |-> accessToken, refreshToken |-> refreshToken]

ErrorResponse(status, error) == Response(status, error, NoClaims, NoToken)

IdleResend == [pc |-> "idle", token |-> NoClaims, email |-> "", user |-> NoUser]

\* no signup request in flight: the account AddUser returned, the session
\* token and the refresh token generated
IdleSignup ==
    [pc |-> "idle", instanceID |-> "", email |-> "", password |-> "", userID |-> "",
     user |-> NoUser, token |-> NoClaims, renewToken |-> NoToken]

\* no login request in flight: the account copy read by GetUserByAccountID,
\* the path decided on it, the session token and the refresh token generated
IdleLogin ==
    [pc |-> "idle", instanceID |-> "", userID |-> "", user |-> NoUser, out |-> "",
     token |-> NoClaims, renewToken |-> NoToken]

\* no verifyOTP request in flight
IdleRequest == [pc |-> "idle", token |-> NoClaims, email |-> "", code |-> ""]

IdleOTP ==
    [pc |-> "idle", token |-> NoClaims, otpType |-> "", user |-> NoUser,
     newToken |-> NoClaims, renewToken |-> NoToken]

\* no verifyEmail request in flight
IdleVerify ==
    [pc |-> "idle",
     tokenInfos |-> [token |-> NoToken, instanceID |-> "", userID |-> "",
                     purpose |-> "", info |-> <<>>, expiresAt |-> 0],
     user |-> NoUser]

IdleCall ==
    [pc |-> "idle", token |-> NoClaims, supplied |-> NoToken, cand |-> NoToken,
     rtNext |-> NoToken, confirmed |-> FALSE, profiles |-> <<NoProfile, <<>> >>,
     first |-> FALSE, retry |-> FALSE, served |-> NoToken, user |-> NoUser]

-----------------------------------------------------------------------------
(* Initial state: one confirmed account that was marked for deletion by the
   inactivity job, no tokens issued yet *)

InitUsers ==
    [u \in {"u1"} |->
        [InitNewEmailUser("i1", "e1", HashPassword("p1", "s1"))
            EXCEPT !.accountConfirmedAt = StartTime,
                   !.createdAt = StartTime - signupRateLimitWindow,
                   !.markedForDeletion = StartTime]]

Init ==
    /\ argonParams = DefaultParams
    /\ now = StartTime
    /\ users = InitUsers
    /\ ledger = {}
    /\ otps = [u \in UserIDs |-> NoOTP]
    /\ nextTok = 1
    /\ sessions = {}
    /\ calls = [w \in Workers |-> IdleCall]
    /\ served = {}
    /\ refreshed = {}
    /\ revokedAll = {}
    /\ revoked = {}
    /\ tempTokens = {}
    /\ nextTemp = 1
    /\ pending = <<>>
    /\ outbox = {}
    /\ resendCalls = [w \in Workers |-> IdleResend]
    /\ resendLog = <<>>
    /\ expiredUse = {}
    /\ validated = {}
    /\ deletedUsers = {}
    /\ nextProfile = 1
    /\ hashed = {}
    /\ compared = NoCompare
    /\ lastThrottled = 0
    /\ signupCalls = [w \in Workers |-> IdleSignup]
    /\ loginCalls = [w \in Workers |-> IdleLogin]
    /\ otpCalls = [w \in Workers |-> IdleOTP]
    /\ verifyCalls = [w \in Workers |-> IdleVerify]
    /\ requestCalls = [w \in Workers |-> IdleRequest]

Advance(step, limit) ==
    /\ now + step <= limit
    /\ now' = now + step
    /\ UNCHANGED <<users, ledger, otps, nextTok, sessions, calls, served, refreshed,
                   revokedAll, revoked, verifVars, expiredUse, restVars>>

Tick == Advance(TickStep, MaxTime)

TickShort == Advance(ShortStep, StartTime + ShortTicks * ShortStep)

\* one step of nearly an hour after the short one
TickLong ==
    /\ now = StartTime + ShortStep
    /\ Advance(LongStep, now + LongStep)

-----------------------------------------------------------------------------
(* POST /auth/login *)

LoginUser(instanceID, email) ==
    CHOOSE u \in UsersByAccountID(instanceID, email) : TRUE

\* faulty variant: the account identifier is passed as the subject
LoginTokenForAccountID(instanceID, email) ==
    LET user == users[LoginUser(instanceID, email)]
        pr == GetMainAndOtherProfiles(user)
    IN  GenerateNewParticipantUserToken(AccessTokenTTL, user.accountID,
            instanceID, pr[1], user.accountConfirmedAt > 0, pr[2], EmptyOTPMap)

LoginToken(instanceID, email) ==
    LET user == users[LoginUser(instanceID, email)]
        pr == GetMainAndOtherProfiles(user)
    IN  GenerateNewParticipantUserToken(AccessTokenTTL, LoginUser(instanceID, email),
            instanceID, pr[1], user.accountConfirmedAt > 0, pr[2], EmptyOTPMap)

\* faulty variant: limit and window are passed in the wrong order
ThrottledSwapped(attempts) ==
    HasMoreAttemptsRecently(attempts, loginFailedAttemptWindow, allowedPasswordAttempts)

\* HasMoreAttemptsRecently(user.Account.FailedLoginAttempts, ...)
LoginThrottled(attempts) ==
    HasMoreAttemptsRecently(attempts, allowedPasswordAttempts, loginFailedAttemptWindow)

\* the return statement the handler is bound for after GetUserByAccountID
\* and the checks on the copy it read: "ok" stands for the calls that follow
\* (CreateRenewToken, ReplaceUser), each of which can still fail
LoginOutcome(instanceID, email, password) ==
    IF email = "" \/ password = "" \/ instanceID = "" THEN "missing"
    ELSE IF ~isInstanceAllowed(instanceID) THEN "instance"
    ELSE IF UsersByAccountID(instanceID, email) = {} THEN "unknown"
    ELSE LET user == users[LoginUser(instanceID, email)]
             cmp == ComparePasswordWithHash(user.password, password)
         IN  IF LoginThrottled(user.failedLoginAttempts) THEN "throttled"
             ELSE IF cmp[2] # "" \/ ~cmp[1] THEN "mismatch"
             ELSE "ok"

\* the answer of a request whose later store calls all succeed
LoginResponse(instanceID, email, password) ==
    LET out == LoginOutcome(instanceID, email, password)
    IN  CASE out = "missing" -> ErrorResponse(400, "missing required fields")
          [] out = "instance" -> ErrorResponse(401, "invalid instance id")
          [] out \in {"unknown", "throttled", "mismatch"} ->
                ErrorResponse(401, "invalid email or password")
          [] out = "ok" -> Response(200, "", LoginToken(instanceID, email), nextTok)

\* the argument of randomWait on the path the handler leaves by: the upper
\* end, in seconds, of the random delay before the response; 0 where the
\* path does not call randomWait
LoginRandomWait(instanceID, email, password) ==
    LET out == LoginOutcome(instanceID, email, password)
    IN  CASE out = "throttled" -> 5
          [] out = "mismatch" -> 10
          [] OTHER -> 0

\* the user store after a request that is turned away by the throttle or by
\* the password check: both paths call SaveFailedLoginAttempt, which appends
\* to the stored document
LoginFailureWrite(uid, out) == SaveFailedLoginAttempt(uid)

\* the account a successful login writes with ReplaceUser: the copy it read,
\* with the timestamps set and the lists pruned.  Account.VerificationCode,
\* which the handler also clears, is not a field of the account record here
LoginUpdatedUser(user) ==
    [user EXCEPT
        !.lastLogin = now,
        !.markedForDeletion = 0,
        !.failedLoginAttempts = RemoveAttemptsOlderThan(@, loginAttemptRetention),
        !.passwordResetTriggers = RemoveAttemptsOlderThan(@, resetTriggerRetention)]

LoginIdle == \A w \in Workers : loginCalls[w].pc = "idle"

\* the store calls of one request are separate steps; those of other
\* requests can come between them.
\* GetUserByAccountID and the checks on the copy; the session token and the
\* refresh-token string are generated from the copy. The returns before the
\* first store write change nothing: the handler only answers
\* (LoginResponse), which is a stuttering step
LoginGetUser(w, instanceID, email, password) ==
    LET out == LoginOutcome(instanceID, email, password)
        uid == LoginUser(instanceID, email)
    IN
    /\ loginCalls[w].pc = "idle"
    /\ out \in {"throttled", "mismatch", "ok"}
    /\ IF out = "ok"
       THEN nextTok <= MaxTokens /\ nextTok' = nextTok + 1
       ELSE Len(users[uid].failedLoginAttempts) < MaxAttempts /\ nextTok' = nextTok
    /\ loginCalls' = [loginCalls EXCEPT ![w] =
            [pc |-> IF out = "ok" THEN "create" ELSE "failed",
             instanceID |-> instanceID, userID |-> uid, user |-> users[uid],
             out |-> out, token |-> LoginToken(instanceID, email),
             renewToken |-> nextTok]]
    /\ UNCHANGED <<now, users, ledger, otps, sessions, calls, served, refreshed,
                   revokedAll, revoked, verifVars, validated, deletedUsers,
                   nextProfile, hashVars, expiredUse, lastThrottled, signupCalls,
                   otpCalls, verifyCalls, requestCalls>>

\* the answer of the two rejection paths, after SaveFailedLoginAttempt and
\* randomWait
LoginSaveFailedResponse(w) == ErrorResponse(401, "invalid email or password")

\* SaveFailedLoginAttempt on the stored document (its error is only logged)
LoginSaveFailed(w) ==
    LET c == loginCalls[w] IN
    /\ c.pc = "failed"
    /\ users' = IF UserExists(c.instanceID, c.userID)
                THEN LoginFailureWrite(c.userID, c.out) ELSE users
    /\ lastThrottled' = IF c.out = "throttled" THEN now ELSE lastThrottled
    /\ loginCalls' = [loginCalls EXCEPT ![w] = IdleLogin]
    /\ UNCHANGED <<now, ledger, otps, nextTok, sessions, calls, served, refreshed,
                   revokedAll, revoked, verifVars, validated, deletedUsers,
                   nextProfile, hashVars, expiredUse, signupCalls, otpCalls,
                   verifyCalls, requestCalls>>

\* CreateRenewToken; its error ends the request with 500
LoginCreateFails(w) == CreateRenewTokenFails(ledger, loginCalls[w].renewToken)

LoginCreateRenewToken(w) ==
    LET c == loginCalls[w] IN
    /\ c.pc = "create"
    /\ IF LoginCreateFails(w)
       THEN /\ loginCalls' = [loginCalls EXCEPT ![w] = IdleLogin]
            /\ UNCHANGED <<ledger, revokedAll>>
       ELSE /\ ledger' = CreateRenewToken(ledger, c.instanceID, c.userID, c.renewToken)
            /\ revokedAll' = revokedAll \ {c.userID}
            /\ loginCalls' = [loginCalls EXCEPT ![w].pc = "replace"]
    /\ UNCHANGED <<now, users, otps, nextTok, sessions, calls, served, refreshed,
                   revoked, verifVars, validated, deletedUsers, nextProfile,
                   hashVars, expiredUse, lastThrottled, signupCalls, otpCalls,
                   verifyCalls, requestCalls>>

\* ReplaceUser writes the whole copy back; it fails when the account is gone,
\* and the request ends with 500 after the refresh token was stored
LoginReplaceFails(w) == ~UserExists(loginCalls[w].instanceID, loginCalls[w].userID)

LoginReplaceUser(w) ==
    LET c == loginCalls[w] IN
    /\ c.pc = "replace"
    /\ IF LoginReplaceFails(w)
       THEN /\ loginCalls' = [loginCalls EXCEPT ![w] = IdleLogin]
            /\ UNCHANGED users
       ELSE /\ users' = [users EXCEPT ![c.userID] = LoginUpdatedUser(c.user)]
            /\ loginCalls' = [loginCalls EXCEPT ![w].pc = "respond",
                                                ![w].user = LoginUpdatedUser(c.user)]
    /\ UNCHANGED <<now, ledger, otps, nextTok, sessions, calls, served, refreshed,
                   revokedAll, revoked, verifVars, validated, deletedUsers,
                   nextProfile, hashVars, expiredUse, lastThrottled, signupCalls,
                   otpCalls, verifyCalls, requestCalls>>

\* the answer of a request that got through its store calls
LoginRespondResponse(w) ==
    Response(200, "", loginCalls[w].token, loginCalls[w].renewToken)

\* DeleteAllTempTokenForUser for the password resets (its error is only
\* logged), then the answer
LoginRespond(w) ==
    LET c == loginCalls[w] IN
    /\ c.pc = "respond"
    /\ tempTokens' = DeleteAllTempTokenForUser(c.instanceID, c.userID, "password-reset")
    /\ sessions' = sessions \cup {c.token}
    /\ served' = served \cup {[userID |-> c.userID, token |-> c.renewToken]}
    /\ loginCalls' = [loginCalls EXCEPT ![w] = IdleLogin]
    /\ UNCHANGED <<now, users, ledger, otps, nextTok, calls, refreshed, revokedAll,
                   revoked, nextTemp, pending, outbox, resendCalls, resendLog,
                   validated, deletedUsers, nextProfile, hashVars, expiredUse,
                   lastThrottled, signupCalls, otpCalls, verifyCalls, requestCalls>>

\* the steps of the requests in flight
LoginStepOf(w) ==
    \/ LoginSaveFailed(w)
    \/ LoginCreateRenewToken(w)
    \/ LoginReplaceUser(w)
    \/ LoginRespond(w)

LoginStep == \E w \in Workers : LoginStepOf(w)

\* the steps of the requests that passed the checks
LoginAcceptedStep ==
    \E w \in Workers : LoginCreateRenewToken(w) \/ LoginReplaceUser(w) \/ LoginRespond(w)

\* the step of the requests that were turned away
LoginRejectedStep == \E w \in Workers : LoginSaveFailed(w)

-----------------------------------------------------------------------------
(* POST /auth/signup *)

\* the arguments of a prepAndSendEmailVerification call
VerificationJob(userID, instanceID, email, messageType) ==
    [userID |-> userID, instanceID |-> instanceID, email |-> email,
     messageType |-> messageType]

SignupUserID == CHOOSE u \in UserIDs \ (DOMAIN users \cup deletedUsers) : TRUE

SignupUser(instanceID, email, password) ==
    InitNewEmailUser(instanceID, email, HashPassword(password, "s2"))

SignupToken(instanceID, email, password) ==
    LET newUser == SignupUser(instanceID, email, password)
        pr == GetMainAndOtherProfiles(newUser)
    IN  GenerateNewParticipantUserToken(AccessTokenTTL, SignupUserID, instanceID,
            pr[1], newUser.accountConfirmedAt > 0, pr[2], EmptyOTPMap)

\* faulty variant: the cap itself is still allowed
RateLimitedAboveCap(instanceID) ==
    CountRecentlyCreatedUsers(instanceID, signupRateLimitWindow) > maxNewUsersPer5Minute

SignupRateLimited(instanceID) ==
    CountRecentlyCreatedUsers(instanceID, signupRateLimitWindow) >= maxNewUsersPer5Minute

\* the return statement the handler is bound for when no other request
\* comes between its store calls and the store accepts every write; AddUser
\* refuses a second account with the same identifier
SignupOutcome(instanceID, email, password, infoCheck) ==
    IF email = "" \/ password = "" \/ instanceID = "" THEN "missing"
    ELSE IF infoCheck # "" THEN "honeypot"
    ELSE IF ~isInstanceAllowed(instanceID) THEN "instance"
    ELSE IF SignupRateLimited(instanceID) THEN "ratelimit"
    ELSE IF UsersByAccountID(instanceID, email) # {} THEN "adduser"
    ELSE "ok"

SignupResponse(instanceID, email, password, infoCheck) ==
    LET out == SignupOutcome(instanceID, email, password, infoCheck)
    IN  CASE out = "missing" -> ErrorResponse(400, "missing required fields")
          [] out = "honeypot" -> ErrorResponse(401, "invalid request")
          [] out = "instance" -> ErrorResponse(401, "invalid instance id")
          [] out = "ratelimit" -> ErrorResponse(429, "try again later")
          [] out = "adduser" -> ErrorResponse(500, "internal server error")
          [] out = "ok" -> Response(200, "", SignupToken(instanceID, email, password),
                                    nextTok)

(* The store calls of one request are separate steps, so that other requests
   and the verification goroutine come between them *)

SignupsInFlight == Cardinality({w \in Workers : signupCalls[w].pc # "idle"})

\* validation, honeypot, allowlist and CountRecentlyCreatedUsers: a request
\* under the cap goes on to AddUser, any other is answered and changes
\* nothing.  A request starts only while an id and a token string are left
\* for it.
SignupCountUsers(w, instanceID, email, password, infoCheck) ==
    /\ signupCalls[w].pc = "idle"
    /\ SignupOutcome(instanceID, email, password, infoCheck) \in {"adduser", "ok"}
    /\ Cardinality(UserIDs \ (DOMAIN users \cup deletedUsers)) > SignupsInFlight
    /\ nextTok + SignupsInFlight <= MaxTokens
    /\ signupCalls' = [signupCalls EXCEPT ![w] =
            [IdleSignup EXCEPT !.pc = "add", !.instanceID = instanceID,
                               !.email = email, !.password = password]]
    /\ UNCHANGED <<now, users, ledger, otps, nextTok, sessions, calls, served, refreshed,
                   revokedAll, revoked, verifVars, expiredUse, validated, deletedUsers,
                   nextProfile, hashVars, lastThrottled, loginCalls, otpCalls,
                   verifyCalls, requestCalls>>

\* AddUser refuses an identifier that has an account
SignupAddUserFails(w) ==
    UsersByAccountID(signupCalls[w].instanceID, signupCalls[w].email) # {}

SignupAddUserResponse(w) == ErrorResponse(500, "internal server error")

\* HashPassword and AddUser, then the verification goroutine is started and
\* the session token and the refresh-token string are generated
SignupAddUser(w) ==
    LET c == signupCalls[w]
        uid == SignupUserID
    IN
    /\ c.pc = "add"
    /\ IF SignupAddUserFails(w)
       THEN /\ signupCalls' = [signupCalls EXCEPT ![w] = IdleSignup]
            /\ UNCHANGED <<users, nextTok, pending>>
       ELSE /\ nextTok <= MaxTokens
            /\ UserIDs \ (DOMAIN users \cup deletedUsers) # {}
            /\ users' = [u \in DOMAIN users \cup {uid} |->
                            IF u = uid THEN SignupUser(c.instanceID, c.email, c.password)
                            ELSE users[u]]
            /\ pending' = Append(pending,
                    VerificationJob(uid, c.instanceID, c.email, "registration"))
            /\ nextTok' = nextTok + 1
            /\ signupCalls' = [signupCalls EXCEPT ![w] =
                    [c EXCEPT !.pc = "create", !.userID = uid,
                              !.user = SignupUser(c.instanceID, c.email, c.password),
                              !.token = SignupToken(c.instanceID, c.email, c.password),
                              !.renewToken = nextTok]]
    /\ UNCHANGED <<now, ledger, otps, sessions, calls, served, refreshed, revokedAll,
                   revoked, tempTokens, nextTemp, outbox, resendCalls, resendLog,
                   expiredUse, validated, deletedUsers, nextProfile, hashVars,
                   lastThrottled, loginCalls, otpCalls, verifyCalls, requestCalls>>

\* renewStored: the store accepts the CreateRenewToken write
SignupCreateFails(w, renewStored) ==
    CreateRenewTokenFails(ledger, signupCalls[w].renewToken) \/ ~renewStored

SignupCreateResponse(w, renewStored) ==
    IF SignupCreateFails(w, renewStored)
    THEN ErrorResponse(500, "internal server error")
    ELSE Response(200, "", signupCalls[w].token, signupCalls[w].renewToken)

\* CreateRenewToken and the answer; its error ends the request with 500 and
\* leaves the account and the goroutine that were created
SignupCreateRenewToken(w, renewStored) ==
    LET c == signupCalls[w] IN
    /\ c.pc = "create"
    /\ signupCalls' = [signupCalls EXCEPT ![w] = IdleSignup]
    /\ IF SignupCreateFails(w, renewStored)
       THEN UNCHANGED <<ledger, sessions, served, revokedAll>>
       ELSE /\ ledger' = CreateRenewToken(ledger, c.instanceID, c.userID, c.renewToken)
            /\ sessions' = sessions \cup {c.token}
            /\ served' = served \cup {[userID |-> c.userID, token |-> c.renewToken]}
            /\ revokedAll' = revokedAll \ {c.userID}
    /\ UNCHANGED <<now, users, otps, nextTok, calls, refreshed, revoked, verifVars,
                   expiredUse, validated, deletedUsers, nextProfile, hashVars,
                   lastThrottled, loginCalls, otpCalls, verifyCalls, requestCalls>>

-----------------------------------------------------------------------------
(* POST /auth/token/renew: the handler makes four store round trips
   (GetUser, FindAndUpdateRenewToken, CreateRenewToken, UpdateUser); each is
   one step of the call, so that concurrent calls interleave between them *)

RefreshEntry(c, status, servedToken) ==
    [userID |-> c.token.Subject, supplied |-> c.supplied, served |-> servedToken,
     status |-> status, retry |-> c.retry, first |-> c.first]

\* a request for (user, supplied) was answered with success before
AnsweredBefore(userID, supplied) ==
    \E r \in refreshed : r.userID = userID /\ r.supplied = supplied /\ r.status = 200

\* GetUser, then GenerateUniqueTokenString.  A missing user is answered 401
\* and nothing changes.
RefreshGetUserResponse(token) ==
    IF ~UserExists(token.InstanceID, token.Subject)
    THEN ErrorResponse(401, "invalid token")
    ELSE ErrorResponse(0, "")     \* no response yet

RefreshGetUser(w, token, supplied) ==
    /\ calls[w].pc = "idle"
    /\ UserExists(token.InstanceID, token.Subject)
    /\ nextTok <= MaxTokens
    /\ nextTok' = nextTok + 1
    /\ calls' = [calls EXCEPT ![w] =
            [IdleCall EXCEPT
                !.pc = "find", !.token = token, !.supplied = supplied,
                !.cand = nextTok, !.user = users[token.Subject],
                !.confirmed = users[token.Subject].accountConfirmedAt > 0,
                !.profiles = GetMainAndOtherProfiles(users[token.Subject]),
                !.retry = AnsweredBefore(token.Subject, supplied)]]
    /\ UNCHANGED <<now, users, ledger, otps, sessions, served, refreshed, revokedAll,
                   revoked, verifVars, restVars>>

\* faulty variant: the supplied token is passed where the candidate belongs
FindResultStagingSupplied(w) ==
    FindAndUpdateRenewToken(ledger, calls[w].token.InstanceID, calls[w].token.Subject,
                            calls[w].supplied, calls[w].supplied)

\* FindAndUpdateRenewToken with the candidate as nextToken
RefreshFindResult(w) ==
    FindAndUpdateRenewToken(ledger, calls[w].token.InstanceID, calls[w].token.Subject,
                            calls[w].supplied, calls[w].cand)

\* faulty variant: the error of the find-and-modify is ignored
FindNeverFails(res) == FALSE

\* if err != nil: the handler answers 500 and returns
RefreshFindFailed(res) == res.err

\* faulty variant: the candidate is compared with the record's current token
FirstUseOnOwnToken(rt, newRenewToken) == rt.renewToken = newRenewToken

\* faulty variant: any staged token counts as a first use
FirstUseOnAnyStaged(rt, newRenewToken) == rt.nextToken # NoToken

\* if rt.NextToken == newRenewToken: the first time the refresh token is used
RefreshIsFirstUse(rt, newRenewToken) == rt.nextToken = newRenewToken

\* newRenewToken after the branch: the candidate on first use, else the token
\* staged by the earlier use
RefreshServedToken(rt, newRenewToken) ==
    IF RefreshIsFirstUse(rt, newRenewToken) THEN newRenewToken ELSE rt.nextToken

RefreshFindResponse(w) ==
    IF RefreshFindFailed(RefreshFindResult(w))
    THEN ErrorResponse(500, "internal server error")
    ELSE ErrorResponse(0, "")     \* no response yet

RefreshFind(w) ==
    LET c == calls[w]
        res == RefreshFindResult(w)
    IN  /\ c.pc = "find"
        /\ IF RefreshFindFailed(res)
           THEN /\ calls' = [calls EXCEPT ![w] = IdleCall]
                /\ refreshed' = refreshed \cup {RefreshEntry(c, 500, NoToken)}
                /\ UNCHANGED ledger
           ELSE /\ ledger' = res.ledger
                /\ calls' = [calls EXCEPT
                       ![w].pc = IF RefreshIsFirstUse(res.rt, c.cand)
                                 THEN "create" ELSE "update",
                       ![w].rtNext = res.rt.nextToken,
                       ![w].first = RefreshIsFirstUse(res.rt, c.cand),
                       ![w].served = RefreshServedToken(res.rt, c.cand)]
                /\ UNCHANGED refreshed
        /\ UNCHANGED <<now, users, otps, nextTok, sessions, served, revokedAll, revoked,
                       verifVars, restVars, expiredUse>>

\* CreateRenewToken for the candidate (first use only)
RefreshCreateResponse(w) ==
    IF CreateRenewTokenFails(ledger, calls[w].cand)
    THEN ErrorResponse(500, "internal server error")
    ELSE ErrorResponse(0, "")     \* no response yet

RefreshCreate(w) ==
    LET c == calls[w]
    IN  /\ c.pc = "create"
        /\ IF CreateRenewTokenFails(ledger, c.cand)
           THEN /\ calls' = [calls EXCEPT ![w] = IdleCall]
                /\ refreshed' = refreshed \cup {RefreshEntry(c, 500, NoToken)}
                /\ UNCHANGED ledger
           ELSE /\ ledger' = CreateRenewToken(ledger, c.token.InstanceID,
                                              c.token.Subject, c.cand)
                /\ calls' = [calls EXCEPT ![w].pc = "update"]
                /\ UNCHANGED refreshed
        /\ UNCHANGED <<now, users, otps, nextTok, sessions, served, revokedAll, revoked,
                       verifVars, restVars, expiredUse>>

\* faulty variant: the refreshed token starts without step-up state
RefreshJwtWithoutOTP(w) ==
    GenerateNewParticipantUserToken(AccessTokenTTL, calls[w].token.Subject,
        calls[w].token.InstanceID, calls[w].profiles[1], calls[w].confirmed,
        calls[w].profiles[2], EmptyOTPMap)

\* UpdateUser (timestamps), new session token, response
RefreshJwt(w) ==
    GenerateNewParticipantUserToken(AccessTokenTTL, calls[w].token.Subject,
        calls[w].token.InstanceID, calls[w].profiles[1], calls[w].confirmed,
        calls[w].profiles[2], calls[w].token.LastOTPProvided)

\* faulty variant: the response carries the candidate generated by this call
RespondWithCandidate(w) ==
    IF ~UserExists(calls[w].token.InstanceID, calls[w].token.Subject)
    THEN ErrorResponse(500, "internal server error")
    ELSE Response(200, "", RefreshJwt(w), calls[w].cand)

RefreshRespondResponse(w) ==
    IF ~UserExists(calls[w].token.InstanceID, calls[w].token.Subject)
    THEN ErrorResponse(500, "internal server error")
    ELSE Response(200, "", RefreshJwt(w), calls[w].served)

RefreshRespond(w) ==
    LET c == calls[w]
        uid == c.token.Subject
        resp == RefreshRespondResponse(w)
    IN  /\ c.pc = "update"
        /\ calls' = [calls EXCEPT ![w] = IdleCall]
        /\ refreshed' = refreshed \cup {RefreshEntry(c, resp.status, resp.refreshToken)}
        /\ IF resp.status # 200
           THEN UNCHANGED <<users, sessions, served>>
           ELSE /\ users' = [users EXCEPT ![uid].lastTokenRefresh = now,
                                          ![uid].markedForDeletion = 0]
                /\ sessions' = sessions \cup {resp.accessToken}
                /\ served' = served \cup {[userID |-> uid, token |-> resp.refreshToken]}
        /\ UNCHANGED <<now, ledger, otps, nextTok, revokedAll, revoked, verifVars, restVars,
                       expiredUse>>

-----------------------------------------------------------------------------
(* GET /auth/token/revoke *)

RevokeResponse(token) == Response(200, "", NoClaims, NoToken)

RevokeRefreshTokens(token) ==
    /\ ledger' = DeleteRenewTokensForUser(ledger, token.InstanceID, token.Subject)
    /\ revokedAll' = revokedAll \cup {token.Subject}
    /\ revoked' = revoked \cup {x \in served : x.userID = token.Subject}
    /\ UNCHANGED <<now, users, otps, nextTok, sessions, calls, served, refreshed,
                   verifVars, restVars>>

-----------------------------------------------------------------------------
(* GET /otp/request and POST /otp/verify *)

RequestOTPResponse(token, otpType, sendOK) ==
    IF otpType # "email" THEN ErrorResponse(400, "invalid OTP type")
    ELSE IF ~UserExists(token.InstanceID, token.Subject) \/ ~sendOK
    THEN ErrorResponse(500, "internal server error")
    ELSE Response(200, "", NoClaims, NoToken)

\* the message the callback of requestOTP hands to the mail transport
OTPMessage(instanceID, email, code) ==
    [instanceID |-> instanceID, to |-> email,
     messageType |-> "auth-verification-code", token |-> NoToken, code |-> code]

(* usermanagement.SendOTPByEmail blocks twice: on the stores (the account is
   read and the code is stored) and on the mail transport (the callback).
   Each is a step of the request; other requests, the deletion of the
   account and the clock come between them *)

\* the account read and the code store; a request for an account that is
\* gone is answered 500 and changes nothing
RequestOTPStore(w, token, otpType, code) ==
    /\ requestCalls[w].pc = "idle"
    /\ otpType = "email"
    /\ UserExists(token.InstanceID, token.Subject)
    /\ otps' = [otps EXCEPT ![token.Subject] =
                    [code |-> code, type |-> "email", expiresAt |-> now + OTPLifetime]]
    /\ requestCalls' = [requestCalls EXCEPT ![w] =
            [pc |-> "send", token |-> token,
             email |-> users[token.Subject].accountID, code |-> code]]
    /\ UNCHANGED <<now, users, ledger, nextTok, sessions, calls, served, refreshed,
                   revokedAll, revoked, verifVars, validated, deletedUsers,
                   nextProfile, hashVars, lastThrottled, signupCalls, loginCalls,
                   otpCalls, verifyCalls>>

\* the answer once the callback has returned
RequestOTPSendResponse(w, sendOK) ==
    IF sendOK THEN Response(200, "", NoClaims, NoToken)
    ELSE ErrorResponse(500, "internal server error")

\* the callback hands the message with the code of this request to the mail
\* transport, whatever has become of the stored code and of the account; a
\* failed dispatch leaves the stored code in place
RequestOTPSend(w, sendOK) ==
    LET c == requestCalls[w] IN
    /\ c.pc = "send"
    /\ outbox' = IF sendOK
                 THEN outbox \cup {OTPMessage(c.token.InstanceID, c.email, c.code)}
                 ELSE outbox
    /\ requestCalls' = [requestCalls EXCEPT ![w] = IdleRequest]
    /\ UNCHANGED <<now, users, ledger, otps, nextTok, sessions, calls, served,
                   refreshed, revokedAll, revoked, tempTokens, nextTemp, pending,
                   resendCalls, resendLog, expiredUse, validated, deletedUsers,
                   nextProfile, hashVars, lastThrottled, signupCalls, loginCalls,
                   otpCalls, verifyCalls>>

\* usermanagement.VerifyOTP: the stored code must be present, unexpired and equal
OTPValid(userID, code) ==
    /\ otps[userID].code # ""
    /\ otps[userID].code = code
    /\ otps[userID].expiresAt > now

\* faulty variant: the map is rebuilt with the verified type only
SetLastOTPOnly(lastOTP, otpType, t) == [k \in {otpType} |-> t]

SetLastOTP(lastOTP, otpType, t) ==
    [k \in DOMAIN lastOTP \cup {otpType} |-> IF k = otpType THEN t ELSE lastOTP[k]]

\* the session token the handler mints from the account it read
VerifyOTPTokenFor(user, token, otpType) ==
    LET pr == GetMainAndOtherProfiles(user)
    IN  GenerateNewParticipantUserToken(AccessTokenTTL, token.Subject, token.InstanceID,
            pr[1], user.accountConfirmedAt > 0, pr[2],
            SetLastOTP(token.LastOTPProvided, otpType, now))

VerifyOTPToken(token) ==
    VerifyOTPTokenFor(users[token.Subject], token, otps[token.Subject].type)

\* the return statement the handler is bound for when no other request comes
\* between its store calls; "ok" stands for CreateRenewToken, which can
\* still fail
VerifyOTPOutcome(token, code) ==
    IF ~OTPValid(token.Subject, code) THEN "code"
    ELSE IF ~UserExists(token.InstanceID, token.Subject) THEN "user"
    ELSE "ok"

VerifyOTPResponse(token, code) ==
    LET out == VerifyOTPOutcome(token, code)
    IN  CASE out = "code" -> ErrorResponse(401, "invalid code")
          [] out = "user" -> ErrorResponse(401, "invalid token")
          [] out = "ok" -> Response(200, "", VerifyOTPToken(token), nextTok)

(* The store calls of one request are separate steps *)

\* usermanagement.VerifyOTP.  A rejected code is answered 401 and changes
\* nothing.  Whether a verified code stays usable is left open by the OTP
\* store's contract: both outcomes are taken
VerifyOTPCheck(w, token, code, consumed) ==
    /\ otpCalls[w].pc = "idle"
    /\ OTPValid(token.Subject, code)
    /\ nextTok <= MaxTokens
    /\ otps' = IF consumed THEN [otps EXCEPT ![token.Subject] = NoOTP] ELSE otps
    /\ otpCalls' = [otpCalls EXCEPT ![w] =
            [IdleOTP EXCEPT !.pc = "get", !.token = token,
                            !.otpType = otps[token.Subject].type]]
    /\ UNCHANGED <<now, users, ledger, nextTok, sessions, calls, served, refreshed,
                   revokedAll, revoked, verifVars, validated, deletedUsers,
                   nextProfile, hashVars, lastThrottled, signupCalls, loginCalls,
                   verifyCalls, requestCalls>>

VerifyOTPGetUserFails(w) ==
    ~UserExists(otpCalls[w].token.InstanceID, otpCalls[w].token.Subject)

VerifyOTPGetUserResponse(w) == ErrorResponse(401, "invalid token")

\* GetUser; the session token and the refresh-token string are generated
\* from the copy and the time of this step
VerifyOTPGetUser(w) ==
    LET c == otpCalls[w] IN
    /\ c.pc = "get"
    /\ IF VerifyOTPGetUserFails(w)
       THEN /\ otpCalls' = [otpCalls EXCEPT ![w] = IdleOTP]
            /\ UNCHANGED nextTok
       ELSE /\ nextTok <= MaxTokens
            /\ nextTok' = nextTok + 1
            /\ otpCalls' = [otpCalls EXCEPT ![w] =
                    [c EXCEPT !.pc = "create", !.user = users[c.token.Subject],
                              !.newToken = VerifyOTPTokenFor(users[c.token.Subject],
                                                             c.token, c.otpType),
                              !.renewToken = nextTok]]
    /\ UNCHANGED <<now, users, ledger, otps, sessions, calls, served, refreshed,
                   revokedAll, revoked, verifVars, expiredUse, validated, deletedUsers,
                   nextProfile, hashVars, lastThrottled, signupCalls, loginCalls,
                   verifyCalls, requestCalls>>

VerifyOTPCreateFails(w) == CreateRenewTokenFails(ledger, otpCalls[w].renewToken)

VerifyOTPCreateResponse(w) ==
    IF VerifyOTPCreateFails(w) THEN ErrorResponse(500, "internal server error")
    ELSE Response(200, "", otpCalls[w].newToken, otpCalls[w].renewToken)

\* CreateRenewToken for the id of the copy, then the answer
VerifyOTPCreate(w) ==
    LET c == otpCalls[w] IN
    /\ c.pc = "create"
    /\ otpCalls' = [otpCalls EXCEPT ![w] = IdleOTP]
    /\ IF VerifyOTPCreateFails(w)
       THEN UNCHANGED <<ledger, sessions, served>>
       ELSE /\ ledger' = CreateRenewToken(ledger, c.token.InstanceID, c.token.Subject,
                                          c.renewToken)
            /\ sessions' = sessions \cup {c.newToken}
            /\ served' = served \cup {[userID |-> c.token.Subject, token |-> c.renewToken]}
    /\ UNCHANGED <<now, users, otps, nextTok, calls, refreshed, revokedAll, revoked,
                   verifVars, expiredUse, validated, deletedUsers, nextProfile,
                   hashVars, lastThrottled, signupCalls, loginCalls, verifyCalls,
                   requestCalls>>

-----------------------------------------------------------------------------
(* prepAndSendEmailVerification, started as a goroutine by signup and resend:
   it stores a contact-verification token and hands the message with the
   token to the mail transport; either call can fail, which is only logged *)

VerificationMessage(job, token) ==
    [instanceID |-> job.instanceID, to |-> job.email,
     messageType |-> job.messageType, token |-> token, code |-> ""]

RemoveAt(seq, i) == SubSeq(seq, 1, i - 1) \o SubSeq(seq, i + 1, Len(seq))

PrepAndSendEmailVerification(i, stored, sent) ==
    LET job == pending[i]
    IN
    /\ pending' = RemoveAt(pending, i)
    /\ IF stored
       THEN /\ nextTemp <= MaxTempTokens
            /\ nextTemp' = nextTemp + 1
            /\ tempTokens' = tempTokens \cup
                  {TempTokenDoc(nextTemp, job.instanceID, job.userID,
                                "contact-verification", ContactInfoOf(job.email),
                                EmailContactVerificationTokenTTL)}
            /\ outbox' = IF sent THEN outbox \cup {VerificationMessage(job, nextTemp)}
                                 ELSE outbox
       ELSE UNCHANGED <<nextTemp, tempTokens, outbox>>
    /\ UNCHANGED <<now, users, ledger, otps, nextTok, sessions, calls, served, refreshed,
                   revokedAll, revoked, resendCalls, resendLog, restVars,
                   expiredUse>>

\* the other services that issue tokens into the shared store: invitations
\* and password resets, for any instance they serve
IssueTempToken(instanceID, userID, purpose, info) ==
    /\ nextTemp <= MaxTempTokens
    /\ nextTemp' = nextTemp + 1
    /\ tempTokens' = tempTokens \cup
          {TempTokenDoc(nextTemp, instanceID, userID, purpose, info,
                        EmailContactVerificationTokenTTL)}
    /\ UNCHANGED <<now, users, ledger, otps, nextTok, sessions, calls, served, refreshed,
                   revokedAll, revoked, pending, outbox, resendCalls, resendLog,
                   restVars, expiredUse>>

-----------------------------------------------------------------------------
(* GET /auth/token/validate *)

ValidateTokenResponse(token) ==
    IF ~UserExists(token.InstanceID, token.Subject)
    THEN ErrorResponse(401, "invalid token")
    ELSE Response(200, "", token, NoToken)

validateToken(token) ==
    /\ ValidateTokenResponse(token).status = 200
    /\ validated' = validated \cup {token.Subject}
    /\ UNCHANGED <<now, users, ledger, otps, nextTok, sessions, calls, served, refreshed,
                   revokedAll, revoked, verifVars, deletedUsers, nextProfile, hashVars,
                   lastThrottled, callVars>>

-----------------------------------------------------------------------------
(* POST /auth/resend-email-verification: the handler reads the account
   (GetUser), decides on the copy it read, and writes the whole copy back
   (ReplaceUser); the two store round trips are two steps of the call *)

ResendCooldown(ci) ==
    ci.confirmationLinkSentAt > now - emailVerificationMessageCooldown

ResendOutcome(token, email) ==
    IF ~UserExists(token.InstanceID, token.Subject) THEN "user"
    ELSE LET res == FindContactInfoByTypeAndAddr(users[token.Subject], "email", email)
         IN  IF ~res.found THEN "email"
             ELSE IF ResendCooldown(res.ci) THEN "cooldown"
             ELSE "proceed"

ResendResponse(token, email) ==
    LET out == ResendOutcome(token, email)
    IN  CASE out = "user" -> ErrorResponse(401, "invalid token")
          [] out = "email" -> ErrorResponse(400, "email not found")
          [] out = "cooldown" -> ErrorResponse(429, "try again later")
          [] out = "proceed" -> Response(200, "email sending initiated", NoClaims, NoToken)

\* the argument of randomWait on the path the handler leaves by; 0 where the
\* path does not call randomWait
ResendRandomWait(token, email) ==
    IF ResendOutcome(token, email) = "cooldown" THEN 5 ELSE 0

\* the returns before the write change nothing: a stuttering step
ResendGetUser(w, token, email) ==
    /\ resendCalls[w].pc = "idle"
    /\ ResendOutcome(token, email) = "proceed"
    /\ resendCalls' = [resendCalls EXCEPT ![w] =
          [pc |-> "replace", token |-> token, email |-> email,
           user |-> SetContactInfoVerificationSent(users[token.Subject], "email", email)]]
    /\ UNCHANGED <<now, users, ledger, otps, nextTok, sessions, calls, served, refreshed,
                   revokedAll, revoked, tempTokens, nextTemp, pending, outbox, resendLog,
                   restVars>>

ResendReplaceResponse(w) ==
    LET c == resendCalls[w]
    IN  IF ~UserExists(c.token.InstanceID, c.token.Subject)
        THEN ErrorResponse(500, "internal server error")
        ELSE Response(200, "email sending initiated", NoClaims, NoToken)

ResendReplace(w) ==
    LET c == resendCalls[w]
    IN
    /\ c.pc = "replace"
    /\ resendCalls' = [resendCalls EXCEPT ![w] = IdleResend]
    /\ IF ResendReplaceResponse(w).status = 200
       THEN /\ users' = [users EXCEPT ![c.token.Subject] = c.user]
            /\ pending' = Append(pending,
                  VerificationJob(c.token.Subject, c.token.InstanceID, c.email,
                                  "verify-email"))
            /\ resendLog' = Append(resendLog,
                  [userID |-> c.token.Subject, email |-> c.email, at |-> now])
       ELSE UNCHANGED <<users, pending, resendLog>>
    /\ UNCHANGED <<now, ledger, otps, nextTok, sessions, calls, served, refreshed,
                   revokedAll, revoked, tempTokens, nextTemp, outbox, validated,
                   deletedUsers, nextProfile, hashVars, expiredUse, lastThrottled, callVars>>

-----------------------------------------------------------------------------
(* POST /auth/verify-email *)

\* faulty variant: the purpose is not looked at
AnyPurpose == {"contact-verification", "invitation", "password-reset"}

VerifyEmailPurposes == {"contact-verification", "invitation"}

\* the checks of the handler on the account it read and the token's info
VerifyEmailCheck(user, info) ==
    IF user.accountID # InfoGet(info, "email") THEN "match"
    ELSE IF ~({"type", "email"} \subseteq DOMAIN info) THEN "info"
    ELSE IF ConfirmContactInfoFails(user, info["type"], info["email"]) THEN "contact"
    ELSE "ok"

\* the return statement the handler is bound for when no other request
\* comes between its store calls
VerifyEmailOutcome(token) ==
    IF ~TempTokenValid(token, VerifyEmailPurposes) THEN "token"
    ELSE LET tokenInfos == validateTempToken(token, VerifyEmailPurposes)
         IN  IF ~UserExists(tokenInfos.instanceID, tokenInfos.userID) THEN "user"
             ELSE VerifyEmailCheck(users[tokenInfos.userID], tokenInfos.info)

\* the account the handler writes with ReplaceUser: the copy it read with
\* the contact confirmed and, for the identifier of an email account, the
\* account confirmed
VerifyEmailUpdatedUser(user, info) ==
    LET confirmed == ConfirmContactInfo(user, info["type"], info["email"])
    IN  IF user.type = "email" /\ user.accountID = info["email"]
        THEN [confirmed EXCEPT !.accountConfirmedAt = now]
        ELSE confirmed

\* the answer when no other request comes between the store calls
VerifyEmailResponse(token) ==
    LET out == VerifyEmailOutcome(token)
    IN  CASE out = "token" -> ErrorResponse(400, "invalid token")
          [] out = "user" -> ErrorResponse(500, "failed to get user")
          [] out = "match" -> ErrorResponse(400, "user does not match token")
          [] out = "info" -> ErrorResponse(400, "missing type or email in token infos")
          [] out = "contact" -> ErrorResponse(500, "failed to confirm contact info")
          [] out = "ok" -> Response(200, "", NoClaims, NoToken)

\* faulty variant: the token is consumed like a password-reset token
TempTokensConsumed(token) == tempTokens \ TempTokenLookup(token)

\* the token store after a successful call: the handler has no delete
TempTokensAfterVerifyEmail(token) == tempTokens

(* The store calls of one request are separate steps *)

\* validateTempToken; an invalid token is answered 400 and changes nothing
VerifyEmailValidate(w, token) ==
    /\ verifyCalls[w].pc = "idle"
    /\ TempTokenValid(token, VerifyEmailPurposes)
    /\ verifyCalls' = [verifyCalls EXCEPT ![w] =
            [IdleVerify EXCEPT !.pc = "get",
                               !.tokenInfos = validateTempToken(token, VerifyEmailPurposes)]]
    /\ UNCHANGED <<now, users, ledger, otps, nextTok, sessions, calls, served, refreshed,
                   revokedAll, revoked, verifVars, expiredUse, validated, deletedUsers,
                   nextProfile, hashVars, lastThrottled, signupCalls, loginCalls,
                   otpCalls, requestCalls>>

\* the return the handler leaves by after GetUser
VerifyEmailGetUserOutcome(w) ==
    LET ti == verifyCalls[w].tokenInfos
    IN  IF ~UserExists(ti.instanceID, ti.userID) THEN "user"
        ELSE VerifyEmailCheck(users[ti.userID], ti.info)

VerifyEmailGetUserResponse(w) ==
    LET out == VerifyEmailGetUserOutcome(w)
    IN  CASE out = "user" -> ErrorResponse(500, "failed to get user")
          [] out = "match" -> ErrorResponse(400, "user does not match token")
          [] out = "info" -> ErrorResponse(400, "missing type or email in token infos")
          [] out = "contact" -> ErrorResponse(500, "failed to confirm contact info")
          [] out = "ok" -> ErrorResponse(0, "")     \* no response yet

\* GetUser, the checks and the confirmation on the copy
VerifyEmailGetUser(w) ==
    LET c == verifyCalls[w]
        ti == c.tokenInfos
    IN
    /\ c.pc = "get"
    /\ verifyCalls' = [verifyCalls EXCEPT ![w] =
            IF VerifyEmailGetUserOutcome(w) = "ok"
            THEN [c EXCEPT !.pc = "replace",
                           !.user = VerifyEmailUpdatedUser(users[ti.userID], ti.info)]
            ELSE IdleVerify]
    /\ UNCHANGED <<now, users, ledger, otps, nextTok, sessions, calls, served, refreshed,
                   revokedAll, revoked, verifVars, expiredUse, validated, deletedUsers,
                   nextProfile, hashVars, lastThrottled, signupCalls, loginCalls,
                   otpCalls, requestCalls>>

\* ReplaceUser fails when the account is gone
VerifyEmailReplaceFails(w) ==
    ~UserExists(verifyCalls[w].tokenInfos.instanceID, verifyCalls[w].tokenInfos.userID)

VerifyEmailReplaceResponse(w) ==
    IF VerifyEmailReplaceFails(w) THEN ErrorResponse(500, "failed to update user")
    ELSE Response(200, "", NoClaims, NoToken)

\* ReplaceUser writes the whole copy back, then the answer
VerifyEmailReplace(w) ==
    LET c == verifyCalls[w] IN
    /\ c.pc = "replace"
    /\ verifyCalls' = [verifyCalls EXCEPT ![w] = IdleVerify]
    /\ users' = IF VerifyEmailReplaceFails(w) THEN users
                ELSE [users EXCEPT ![c.tokenInfos.userID] = c.user]
    /\ tempTokens' = IF VerifyEmailReplaceFails(w) THEN tempTokens
                     ELSE TempTokensAfterVerifyEmail(c.tokenInfos.token)
    /\ UNCHANGED <<now, ledger, otps, nextTok, sessions, calls, served, refreshed,
                   revokedAll, revoked, nextTemp, pending, outbox, resendCalls,
                   resendLog, expiredUse, validated, deletedUsers, nextProfile,
                   hashVars, lastThrottled, signupCalls, loginCalls, otpCalls,
                   requestCalls>>

-----------------------------------------------------------------------------
(* The stores a handler has read or written by the time it answers *)

\* for a request whose store calls all succeed
LoginStoreAccess(instanceID, email, password) ==
    LET out == LoginOutcome(instanceID, email, password)
    IN  IF out \in {"missing", "instance"} THEN {}
        ELSE IF out \in {"unknown", "throttled", "mismatch"} THEN {"users"}
        ELSE {"users", "ledger", "tempTokens"}

SignupStoreAccess(instanceID, email, password, infoCheck) ==
    LET out == SignupOutcome(instanceID, email, password, infoCheck)
    IN  IF out \in {"missing", "honeypot", "instance"} THEN {}
        ELSE IF out \in {"ratelimit", "adduser"} THEN {"users"}
        ELSE {"users", "ledger"}

VerifyEmailStoreAccess(token) ==
    IF VerifyEmailOutcome(token) = "token" THEN {"tempTokens"}
    ELSE {"tempTokens", "users"}

-----------------------------------------------------------------------------
(* The job outside this service that deletes accounts: it removes the account
   document; whether the refresh tokens of the account are already gone when
   a request of its owner arrives depends on how far the job has come *)

DeleteAccount(userID, withTokens) ==
    /\ userID \in DOMAIN users
    /\ users' = [u \in DOMAIN users \ {userID} |-> users[u]]
    /\ deletedUsers' = deletedUsers \cup {userID}
    /\ ledger' = IF withTokens
                 THEN DeleteRenewTokensForUser(ledger, users[userID].instanceID, userID)
                 ELSE ledger
    /\ UNCHANGED <<now, otps, nextTok, sessions, calls, served, refreshed,
                   revokedAll, revoked, verifVars, validated, nextProfile,
                   hashVars, expiredUse, lastThrottled, callVars>>

-----------------------------------------------------------------------------------------------------------------------------------------------------
(* The password-hashing package on its own: the parameters are set from the
   environment when a process starts, passwords are hashed by the processes
   that create accounts, and hashes are compared by the processes that
   check passwords, which may run with other parameters *)

HashOnly == <<now, users, ledger, otps, nextTok, sessions, calls, served, refreshed,
              revokedAll, revoked, verifVars, validated, deletedUsers, nextProfile,
              expiredUse, lastThrottled, callVars>>

\* the environment: texts strconv.Atoi turns into these numbers
EnvMemory == {0, 32}
EnvIterations == {0, 2}
EnvParallelism == {0, 256}

InitArgonParamsFromEnv(a2m, a2i, a2p) ==
    /\ argonParams' =
           [memory |-> IF a2m > 0 THEN ToUint32(a2m) ELSE argonParams.memory,
            iterations |-> IF a2i > 0 THEN ToUint32(a2i) ELSE argonParams.iterations,
            parallelism |-> IF a2p > 0 THEN ToUint8(a2p) ELSE argonParams.parallelism]
    /\ UNCHANGED <<HashOnly, hashed, compared>>

\* a call of HashPassword that returns
HashCall(password, salt) ==
    /\ Cardinality(hashed) < MaxHashes
    /\ ~HashPanics
    /\ hashed' = hashed \cup {[password |-> password,
                               encodedHash |-> HashPassword(password, salt)]}
    /\ UNCHANGED <<HashOnly, argonParams, compared>>

\* encoded hashes somebody else wrote
Crafted(version, params, salt, hash) ==
    << Text(""), Text("argon2id"), version, params, salt, hash >>

GoodSalt == Base64Field(RandomSalt("s1"))
GoodKey == Base64Field(IDKey("p1", RandomSalt("s1"), DefaultParams, argon2KeyLength))
GoodParams == ParamsField(DefaultParams.memory, DefaultParams.iterations, DefaultParams.parallelism)

CraftedHashes ==
    { NoPassword,
      << Text(""), Text("argon2id"), VersionField(argon2Version), GoodParams, GoodSalt >>,
      << Text(""), Text("argon2id"), VersionField(argon2Version), GoodParams, GoodSalt,
         GoodKey, Text("") >>,
      Crafted(Text("v"), GoodParams, GoodSalt, GoodKey),
      Crafted(VersionField(16), GoodParams, GoodSalt, GoodKey),
      Crafted(VersionField(16), Text("m"), Text("%"), Text("%")),
      Crafted(VersionField(argon2Version), Text("m"), GoodSalt, GoodKey),
      Crafted(VersionField(argon2Version), ParamsField(8, 1, 256), GoodSalt, GoodKey),
      Crafted(VersionField(argon2Version), ParamsField(0, 0, 0), GoodSalt, GoodKey),
      Crafted(VersionField(argon2Version), ParamsField(0, 1, 1), GoodSalt, GoodKey),
      Crafted(VersionField(argon2Version), GoodParams, Text("%"), GoodKey),
      Crafted(VersionField(argon2Version), GoodParams, Text(""), GoodKey),
      Crafted(VersionField(argon2Version), GoodParams, GoodSalt, Text("%")),
      Crafted(VersionField(argon2Version), GoodParams, GoodSalt, Text("")),
      Crafted(VersionField(argon2Version), GoodParams, GoodSalt, Text("argon2id")) }

CompareCall(encodedHash, password) ==
    /\ compared' =
           IF ComparePanics(encodedHash)
           THEN [called |-> TRUE, encodedHash |-> encodedHash, password |-> password,
                 panics |-> TRUE, match |-> FALSE, err |-> ""]
           ELSE [called |-> TRUE, encodedHash |-> encodedHash, password |-> password,
                 panics |-> FALSE,
                 match |-> ComparePasswordWithHash(encodedHash, password)[1],
                 err |-> ComparePasswordWithHash(encodedHash, password)[2]]
    /\ UNCHANGED <<HashOnly, argonParams, hashed>>

-----------------------------------------------------------------------------
(* Contact infos and contact preferences of a user *)

\* User.AddNewEmail
AddNewEmail(user, addr, confirmed, id) ==
    [user EXCEPT !.contactInfos =
        Append(@, [id |-> id, type |-> "email", email |-> addr, phone |-> "",
                   confirmedAt |-> IF confirmed THEN now ELSE 0,
                   confirmationLinkSentAt |-> 0])]

\* User.RemoveContactInfoFromContactPreferences: the loop returns at the first
\* reference it removes
RemoveContactInfoFromContactPreferences(user, id) ==
    LET refs == user.sendNewsletterTo
        hits == {i \in DOMAIN refs : refs[i] = id}
    IN  IF hits = {} THEN user
        ELSE [user EXCEPT !.sendNewsletterTo =
                  RemoveAt(refs, CHOOSE i \in hits : \A j \in hits : i <= j)]

\* User.ReplaceContactInfoInContactPreferences
ReplaceContactInfoInContactPreferences(user, oldId, newId) ==
    [user EXCEPT !.sendNewsletterTo =
        [i \in DOMAIN @ |-> IF @[i] = oldId THEN newId ELSE @[i]]]

\* the contact infos with the id, in order
ContactsWithID(user, id) ==
    {i \in DOMAIN user.contactInfos : user.contactInfos[i].id = id}

FirstContactWithID(user, id) ==
    CHOOSE i \in ContactsWithID(user, id) : \A j \in ContactsWithID(user, id) : i <= j

\* the error User.RemoveContactInfo returns, "" for nil
RemoveContactInfoError(user, id) ==
    IF ContactsWithID(user, id) = {} THEN "contact not found"
    ELSE IF user.type = "email"
            /\ user.contactInfos[FirstContactWithID(user, id)].email = user.accountID
         THEN "cannot remove main address"
         ELSE ""

\* User.RemoveContactInfo: the references are looked through when no contact
\* info has the id
RemoveContactInfo(user, id) ==
    CASE RemoveContactInfoError(user, id) = "contact not found" ->
             RemoveContactInfoFromContactPreferences(user, id)
      [] RemoveContactInfoError(user, id) = "cannot remove main address" -> user
      [] OTHER ->
             [user EXCEPT !.contactInfos = RemoveAt(@, FirstContactWithID(user, id))]

-----------------------------------------------------------------------------
(* The "user" member of the success responses *)

\* user.Account.Password = ""
BlankPassword(user) == [user EXCEPT !.password = NoPassword]

\* login: the account ReplaceUser returned, with the password blanked
LoginResponseUser(w) == BlankPassword(loginCalls[w].user)

\* signup: the account AddUser returned, with the password blanked
SignupResponseUser(w) == BlankPassword(signupCalls[w].user)

\* refresh: the account GetUser returned, with the password blanked
RefreshResponseUser(w) == BlankPassword(calls[w].user)

\* verify-email: the account as written, with the password blanked
VerifyEmailResponseUser(w) == BlankPassword(verifyCalls[w].user)

\* verify-OTP: the account GetUser returned, as it is
VerifyOTPResponseUser(w) == otpCalls[w].user

-----
(* Calls of the profile methods on the account of the initial state, by the
   profile handlers of the API; the account is written back as a whole *)

ProfileVars == <<now, ledger, otps, nextTok, sessions, calls, served, refreshed,
                 revokedAll, revoked, verifVars, validated, deletedUsers, expiredUse,
                 hashVars, lastThrottled, callVars>>

\* profiles a caller can supply: the ids in use and one that is not
SuppliedProfiles(user) ==
    [id : {user.profiles[i].id : i \in DOMAIN user.profiles} \cup {NewObjectID(0)},
     mainProfile : BOOLEAN, alias : {"a", "b"}, createdAt : {0}]

ProfileAdd(u, p) ==
    /\ nextProfile <= MaxProfiles
    /\ nextProfile' = nextProfile + 1
    /\ users' = [users EXCEPT ![u] = AddProfile(@, p, NewObjectID(nextProfile))]
    /\ UNCHANGED ProfileVars

\* the error return changes nothing: a stuttering step
ProfileUpdate(u, p) ==
    /\ UpdateProfileError(users[u], p) = ""
    /\ users' = [users EXCEPT ![u] = UpdateProfile(@, p)]
    /\ UNCHANGED <<ProfileVars, nextProfile>>

\* the error returns change nothing: a stuttering step
ProfileRemove(u, id) ==
    /\ RemoveProfileError(users[u], id) = ""
    /\ users' = [users EXCEPT ![u] = RemoveProfile(@, id)]
    /\ UNCHANGED <<ProfileVars, nextProfile>>

-----------------------------------------------------------------------------
(* Calls of the contact methods on the account of the initial state, by the
   contact handlers of the API; the account is written back as a whole *)

\* ids a caller can name: the ids of the contact infos, the ids referenced,
\* and one that is neither
ContactIDs(user) ==
    {user.contactInfos[i].id : i \in DOMAIN user.contactInfos}
        \cup {user.sendNewsletterTo[i] : i \in DOMAIN user.sendNewsletterTo}
        \cup {NewObjectID(0)}

ContactAdd(u, addr, confirmed) ==
    /\ nextProfile <= MaxProfiles
    /\ nextProfile' = nextProfile + 1
    /\ users' = [users EXCEPT ![u] = AddNewEmail(@, addr, confirmed, NewObjectID(nextProfile))]
    /\ UNCHANGED ProfileVars

\* the handler that sets the contact preferences adds a reference
NewsletterAdd(u, id) ==
    /\ Len(users[u].sendNewsletterTo) < MaxRefs
    /\ users' = [users EXCEPT ![u].sendNewsletterTo = Append(@, id)]
    /\ UNCHANGED <<ProfileVars, nextProfile>>

NewsletterReplace(u, oldId, newId) ==
    /\ users' = [users EXCEPT ![u] = ReplaceContactInfoInContactPreferences(@, oldId, newId)]
    /\ UNCHANGED <<ProfileVars, nextProfile>>

ContactRemove(u, id) ==
    /\ users' = [users EXCEPT ![u] = RemoveContactInfo(@, id)]
    /\ UNCHANGED <<ProfileVars, nextProfile>>

NewsletterRemove(u, id) ==
    /\ users' = [users EXCEPT ![u] = RemoveContactInfoFromContactPreferences(@, id)]
    /\ UNCHANGED <<ProfileVars, nextProfile>>

-----------------------------------------------------------------------------
(* Requests *)

\* the password the owner of an address signs up and logs in with
OwnPassword(email) == IF email = "e1" THEN "p1" ELSE "p2"

\* refresh tokens a client can present: every string generated so far and a
\* string that was never generated
PresentableTokens == (1 .. (nextTok - 1)) \cup {GarbageToken}

\* the workers are interchangeable: a request is taken by "w1" unless it is busy
FreeWorker == IF calls["w1"].pc = "idle" THEN "w1" ELSE "w2"

\* routes behind the session-token middleware: the handler runs only for a
\* token the middleware of the route lets through
Middleware(route, token) ==
    /\ ValidateParticipantUserJWT(token, RouteIgnoresExpiration(route))
    /\ expiredUse' = IF token.ExpiresAt < now THEN expiredUse \cup {route}
                                               ELSE expiredUse

\* no request of the handlers with several store calls is between its
\* store calls
Settled ==
    \A w \in Workers : /\ loginCalls[w].pc = "idle"
                        /\ signupCalls[w].pc = "idle"
                        /\ otpCalls[w].pc = "idle"
                        /\ verifyCalls[w].pc = "idle"

\* and no OTP request is waiting for the mail transport
Quiet == Settled /\ \A w \in Workers : requestCalls[w].pc = "idle"

\* the requests of the second worker are served without a step of another
\* request in between, those of the first can be overtaken by them
SecondIdle == loginCalls["w2"].pc = "idle"

FreeLoginWorker == IF loginCalls["w1"].pc = "idle" THEN "w1" ELSE "w2"

Login == \E i \in NamedInstanceIDs, e \in Emails :
             LoginGetUser(FreeLoginWorker, i, e, OwnPassword(e))

LoginAny == \E e \in Emails, p \in Passwords : LoginGetUser(FreeLoginWorker, "i1", e, p)

\* a login with a wrong password arrives while a verify-email request is
\* between its store calls
LoginDuringVerify ==
    /\ \E w \in Workers : verifyCalls[w].pc # "idle"
    /\ LoginIdle
    /\ \E e \in Emails : \E p \in Passwords \ {OwnPassword(e)} :
           LoginGetUser(FreeLoginWorker, "i1", e, p)

\* the account of the initial state logs in
LoginOwner == LoginGetUser(FreeLoginWorker, "i1", "e1", OwnPassword("e1"))

FreeSignupWorker == IF signupCalls["w1"].pc = "idle" THEN "w1" ELSE "w2"

Signup == \E i \in NamedInstanceIDs, e \in Emails :
              SignupCountUsers(FreeSignupWorker, i, e, OwnPassword(e), "")

\* a signup in the second allowed instance
SignupSecondInstance ==
    \E e \in Emails : SignupCountUsers(FreeSignupWorker, "i2", e, OwnPassword(e), "")

\* the steps of the signup requests in flight over a store that accepts
\* every write
SignupStep == \E w \in Workers : SignupAddUser(w) \/ SignupCreateRenewToken(w, TRUE)

\* the same over a store that may refuse the CreateRenewToken write
SignupStepUnreliable ==
    \E w \in Workers : \/ SignupAddUser(w)
                       \/ \E renewStored \in BOOLEAN : SignupCreateRenewToken(w, renewStored)

RefreshStart == \E t \in sessions, s \in PresentableTokens :
                    Middleware("/auth/token/renew", t) /\ RefreshGetUser(FreeWorker, t, s)

\* one refresh call at a time
RefreshStartAlone == (\A w \in Workers : calls[w].pc = "idle") /\ RefreshStart

RefreshStep == \E w \in Workers :
                   RefreshFind(w) \/ RefreshCreate(w) \/ RefreshRespond(w)

Revoke == \E t \in sessions : Middleware("/auth/token/revoke", t) /\ RevokeRefreshTokens(t)

FreeRequestWorker == IF requestCalls["w1"].pc = "idle" THEN "w1" ELSE "w2"

OTPRequest == \E t \in sessions, c \in OTPCodes :
                  /\ Middleware("/otp/request", t)
                  /\ RequestOTPStore(FreeRequestWorker, t, "email", c)

OTPRequestStep == \E w \in Workers, ok \in BOOLEAN : RequestOTPSend(w, ok)

FreeOTPWorker == IF otpCalls["w1"].pc = "idle" THEN "w1" ELSE "w2"

OTPVerify == \E t \in sessions, c \in OTPCodes \cup {"cx"}, consumed \in BOOLEAN :
                 /\ Middleware("/otp/verify", t)
                 /\ VerifyOTPCheck(FreeOTPWorker, t, c, consumed)

OTPVerifyStep == \E w \in Workers : VerifyOTPGetUser(w) \/ VerifyOTPCreate(w)

\* signups for one more address than there can be accounts
\* addresses of the concurrent requests
ConcurrentEmails == {"e2", "e3"}

SignupRateCheck == \E e \in ConcurrentEmails :
                       SignupCountUsers(FreeSignupWorker, "i1", e, OwnPassword(e), "")

SignupAny == \E e \in Emails \cup {"e3"} :
                 SignupCountUsers(FreeSignupWorker, "i1", e, OwnPassword(e), "")

Validate == \E t \in sessions :
                Middleware("/auth/token/validate", t) /\ validateToken(t)

FreeResendWorker == IF resendCalls["w1"].pc = "idle" THEN "w1" ELSE "w2"

ResendStart == \E t \in sessions, e \in Emails :
                   /\ Middleware("/auth/resend-email-verification", t)
                   /\ ResendGetUser(FreeResendWorker, t, e)

\* one resend call at a time
ResendStartAlone == (\A w \in Workers : resendCalls[w].pc = "idle") /\ ResendStart

ResendStep == \E w \in Workers : ResendReplace(w)

SendVerification == \E i \in DOMAIN pending, stored, sent \in BOOLEAN :
                        PrepAndSendEmailVerification(i, stored, sent)

\* verification tokens a client can present: every string generated so far
\* and one that was not
PresentableTempTokens == 1 .. nextTemp

FreeVerifyWorker == IF verifyCalls["w1"].pc = "idle" THEN "w1" ELSE "w2"

EmailVerify == \E tok \in PresentableTempTokens : VerifyEmailValidate(FreeVerifyWorker, tok)

EmailVerifyStep == \E w \in Workers : VerifyEmailGetUser(w) \/ VerifyEmailReplace(w)

EmptyInfo == [k \in {} |-> ""]

\* the tokens the other services issue for an account: a password reset, an
\* invitation with and without contact details, an invitation for an
\* instance this service does not serve
IssuedTokenKinds(u) ==
    {<<"i1", "password-reset", ContactInfoOf(users[u].accountID)>>,
     <<"i1", "invitation", ContactInfoOf(users[u].accountID)>>,
     <<"i1", "invitation", EmptyInfo>>,
     <<"ix", "invitation", ContactInfoOf(users[u].accountID)>>}

IssueToken == \E u \in DOMAIN users : \E k \in IssuedTokenKinds(u) :
                  IssueTempToken(k[1], u, k[2], k[3])

\* verification tokens for the addresses of the initial account: its
\* identifier, its second address, its identifier as a phone number, and
\* records that lack the type or the email
ContactTokenInfos ==
    {ContactInfoOf("e1"), ContactInfoOf("e2"),
     [k \in {"type", "email"} |-> IF k = "type" THEN "phone" ELSE "e1"],
     [k \in {"email"} |-> "e1"], [k \in {"type"} |-> "email"]}

IssueContactToken == \E info \in ContactTokenInfos :
                         IssueTempToken("i1", "u1", "contact-verification", info)

\* the initial account adds "e2" once
SecondAddress ==
    /\ "u1" \in DOMAIN users
    /\ ContactIndexes(users["u1"], "email", "e2") = {}
    /\ \E confirmed \in BOOLEAN : ContactAdd("u1", "e2", confirmed)

AccountDeletion == \E u \in DOMAIN users, withTokens \in BOOLEAN :
                       DeleteAccount(u, withTokens)

\* the account of a verify-email request is deleted after the request
\* read it and before it writes it back
DeletionDuringVerify ==
    \E w \in Workers :
        /\ verifyCalls[w].pc = "replace"
        /\ verifyCalls[w].tokenInfos.userID \in DOMAIN users
        /\ DeleteAccount(verifyCalls[w].tokenInfos.userID, TRUE)

\* one step that outlasts a session token and not a refresh token
TickOnce == Advance(ShortStep, StartTime + ShortStep)

TickCooldown == Advance(CooldownStep, StartTime + CooldownTicks * CooldownStep)

(* The endpoints that issue, rotate and revoke tokens, refresh calls one
   after the other *)
Next ==
    \/ Quiet /\ Tick
    \/ Quiet /\ Login
    \/ Quiet /\ Signup
    \/ Quiet /\ RefreshStartAlone
    \/ Quiet /\ RefreshStep
    \/ Quiet /\ Revoke
    \/ Quiet /\ OTPRequest
    \/ Quiet /\ OTPVerify
    \/ LoginAcceptedStep
    \/ SignupStep
    \/ OTPVerifyStep
    \/ OTPRequestStep

Spec == Init /\ [][Next]_vars

(* Every endpoint that writes the ledger, refresh calls concurrent, clock at rest *)
NextLedger ==
    \/ Quiet /\ Login
    \/ Quiet /\ Signup
    \/ Quiet /\ RefreshStart
    \/ Quiet /\ RefreshStep
    \/ Quiet /\ Revoke
    \/ Quiet /\ OTPRequest
    \/ Quiet /\ OTPVerify
    \/ LoginAcceptedStep
    \/ SignupStep
    \/ OTPVerifyStep
    \/ OTPRequestStep

SpecLedger == Init /\ [][NextLedger]_vars

(* Concurrent refresh calls of one account *)
NextRefresh ==
    \/ Quiet /\ Tick
    \/ Quiet /\ LoginOwner
    \/ Quiet /\ RefreshStart
    \/ Quiet /\ RefreshStep
    \/ Quiet /\ Revoke
    \/ LoginAcceptedStep

SpecRefresh == Init /\ [][NextRefresh]_vars

(* Login attempts with right and wrong passwords *)
NextLogin ==
    \/ Quiet /\ TickShort
    \/ Quiet /\ LoginAny
    \/ LoginStep

SpecLogin == Init /\ [][NextLogin]_vars

(* Minting of session tokens: login, signup, one-time code, refresh *)
NextStepUp ==
    \/ Quiet /\ TickOnce
    \/ Quiet /\ LoginOwner
    \/ Quiet /\ Signup
    \/ Quiet /\ OTPRequest
    \/ Quiet /\ OTPVerify
    \/ Quiet /\ RefreshStartAlone
    \/ Quiet /\ RefreshStep
    \/ LoginAcceptedStep
    \/ SignupStep
    \/ OTPVerifyStep
    \/ OTPRequestStep

SpecStepUp == Init /\ [][NextStepUp]_vars

(* Signup over a store that may refuse a write *)
NextSignupFailure ==
    \/ Quiet /\ Tick
    \/ Quiet /\ LoginOwner
    \/ Quiet /\ Signup
    \/ Quiet /\ SendVerification
    \/ LoginAcceptedStep
    \/ SignupStepUnreliable

SpecSignupFailure == Init /\ [][NextSignupFailure]_vars

(* Refresh calls of two accounts *)
NextOwner ==
    \/ Quiet /\ LoginOwner
    \/ Quiet /\ Signup
    \/ Quiet /\ SignupSecondInstance
    \/ Quiet /\ RefreshStartAlone
    \/ Quiet /\ RefreshStep
    \/ Quiet /\ Revoke
    \/ LoginAcceptedStep
    \/ SignupStep

SpecOwner == Init /\ [][NextOwner]_vars

(* Concurrent signup requests *)
NextConcurrentSignup ==
    \/ Tick
    \/ SignupRateCheck
    \/ SendVerification
    \/ SignupStep

SpecConcurrentSignup == Init /\ [][NextConcurrentSignup]_vars

(* Verify-email for an account with a second address *)
NextOwnAddress ==
    \/ Quiet /\ Tick
    \/ Quiet /\ SecondAddress
    \/ Quiet /\ IssueContactToken
    \/ Quiet /\ EmailVerify
    \/ LoginIdle /\ EmailVerifyStep
    \/ LoginDuringVerify
    \/ LoginIdle /\ DeletionDuringVerify
    \/ LoginRejectedStep

SpecOwnAddress == Init /\ [][NextOwnAddress]_vars

(* Concurrent login requests, the clock at rest *)
NextLoginRace ==
    \/ SecondIdle /\ LoginAny
    \/ SecondIdle /\ LoginStepOf("w1")
    \/ LoginStepOf("w2")

SpecLoginRace == Init /\ [][NextLoginRace]_vars

(* Login attempts over more than an hour *)
NextRetention ==
    \/ Quiet /\ TickOnce
    \/ Quiet /\ TickLong
    \/ Quiet /\ LoginAny
    \/ LoginStep

SpecRetention == Init /\ [][NextRetention]_vars

(* Signup with the goroutine that sends the verification message *)
NextSignup ==
    \/ Quiet /\ Tick
    \/ Quiet /\ TickCooldown
    \/ Quiet /\ LoginOwner
    \/ Quiet /\ SignupAny
    \/ Quiet /\ SendVerification
    \/ LoginAcceptedStep
    \/ SignupStep

SpecSignup == Init /\ [][NextSignup]_vars

(* Verify-email with the tokens of signup and of the other issuers *)
NextVerifyEmail ==
    \/ Quiet /\ Tick
    \/ Quiet /\ Signup
    \/ Quiet /\ SendVerification
    \/ Quiet /\ IssueToken
    \/ Quiet /\ EmailVerify
    \/ SignupStep
    \/ EmailVerifyStep

SpecVerifyEmail == Init /\ [][NextVerifyEmail]_vars

(* Verify-email called again with the token of a signup, the clock in short
   steps *)
NextReverify ==
    \/ Quiet /\ Tick
    \/ Quiet /\ TickCooldown
    \/ Quiet /\ Signup
    \/ Quiet /\ SendVerification
    \/ Quiet /\ EmailVerify
    \/ SignupStep
    \/ EmailVerifyStep

SpecReverify == Init /\ [][NextReverify]_vars

(* Concurrent resend calls, the clock in steps shorter than the cooldown *)
NextResend ==
    \/ Quiet /\ TickCooldown
    \/ Quiet /\ LoginOwner
    \/ Quiet /\ ResendStart
    \/ Quiet /\ ResendStep
    \/ LoginAcceptedStep

SpecResend == Init /\ [][NextResend]_vars

\* one token string is held back
FewTokens == nextTok < MaxTokens

(* The session-bound endpoints with session tokens that expire *)
NextExpiry ==
    \/ Quiet /\ TickOnce
    \/ Quiet /\ FewTokens /\ LoginOwner
    \/ Quiet /\ FewTokens /\ RefreshStartAlone
    \/ Quiet /\ RefreshStep
    \/ Quiet /\ Revoke
    \/ Quiet /\ OTPRequest
    \/ Quiet /\ FewTokens /\ OTPVerify
    \/ Quiet /\ Validate
    \/ Quiet /\ ResendStartAlone
    \/ Quiet /\ ResendStep
    \/ LoginAcceptedStep
    \/ OTPVerifyStep
    \/ OTPRequestStep

SpecExpiry == Init /\ [][NextExpiry]_vars

(* The session-bound endpoints with accounts that are deleted *)
NextStale ==
    \/ Quiet /\ LoginOwner
    \/ AccountDeletion
    \/ Quiet /\ RefreshStartAlone
    \/ Quiet /\ RefreshStep
    \/ Quiet /\ Revoke
    \/ Settled /\ OTPRequest
    \/ Settled /\ OTPVerify
    \/ Quiet /\ Validate
    \/ Quiet /\ ResendStartAlone
    \/ Quiet /\ ResendStep
    \/ LoginAcceptedStep
    \/ OTPVerifyStep
    \/ OTPRequestStep

SpecStale == Init /\ [][NextStale]_vars

(* The one-time codes *)
NextOTP ==
    \/ Quiet /\ Tick
    \/ Quiet /\ TickCooldown
    \/ Quiet /\ LoginOwner
    \/ Quiet /\ OTPRequest
    \/ Quiet /\ OTPVerify
    \/ LoginAcceptedStep
    \/ OTPVerifyStep
    \/ OTPRequestStep

SpecOTP == Init /\ [][NextOTP]_vars

(* The one-time codes while a send is outstanding: a verification, a second
   request, the deletion of the account and the clock come between the
   store of a code and the end of its send *)
NextOTPRace ==
    \/ Settled /\ Tick
    \/ Quiet /\ LoginOwner
    \/ Settled /\ OTPRequest
    \/ Settled /\ OTPVerify
    \/ Settled /\ AccountDeletion
    \/ LoginAcceptedStep
    \/ OTPVerifyStep
    \/ OTPRequestStep

SpecOTPRace == Init /\ [][NextOTPRace]_vars

(* The profile methods *)
NextContacts ==
    \/ \E confirmed \in BOOLEAN : ContactAdd("u1", "e2", confirmed)
    \/ \E id \in ContactIDs(users["u1"]) : NewsletterAdd("u1", id)
    \/ \E oldId, newId \in ContactIDs(users["u1"]) : NewsletterReplace("u1", oldId, newId)
    \/ \E id \in ContactIDs(users["u1"]) : ContactRemove("u1", id)
    \/ \E id \in ContactIDs(users["u1"]) : NewsletterRemove("u1", id)

SpecContacts == Init /\ [][NextContacts]_vars

NextHash ==
    \/ \E a2m \in EnvMemory, a2i \in EnvIterations, a2p \in EnvParallelism :
           InitArgonParamsFromEnv(a2m, a2i, a2p)
    \/ \E password \in Passwords : HashCall(password, "s1")
    \/ \E h \in hashed, password \in Passwords : CompareCall(h.encodedHash, password)
    \/ \E e \in CraftedHashes, password \in Passwords : CompareCall(e, password)

SpecHash == Init /\ [][NextHash]_vars

NextProfiles ==
    \/ \E p \in SuppliedProfiles(users["u1"]) : ProfileAdd("u1", p)
    \/ \E p \in SuppliedProfiles(users["u1"]) : ProfileUpdate("u1", p)
    \/ \E p \in SuppliedProfiles(users["u1"]) : ProfileRemove("u1", p.id)

SpecProfiles == Init /\ [][NextProfiles]_vars

-----------------------------------------------------------------------------
(* Properties of refresh-token rotation (SpecRefresh) *)

\* the unexpired ledger records the token presented by call w selects
CallMatches(w) ==
    MatchingRenewTokens(ledger, calls[w].token.InstanceID, calls[w].token.Subject,
                        calls[w].supplied)

\* the successful answers given before to the request that call w repeats
PriorAnswers(w) ==
    {e \in refreshed : /\ e.userID = calls[w].token.Subject
                       /\ e.supplied = calls[w].supplied
                       /\ e.status = 200}

\* C1: first use of a stored, unexpired token R with no next staged: the
\* candidate R' is staged as next of R's record, R' gets a ledger record of
\* its own for the same (instance, user), and the call succeeds serving
\* R' # R, which a later refresh can present.
C1_FirstUseRotates ==
    [][\A w \in Workers :
        LET c == calls[w]
        IN  /\ ( /\ RefreshFind(w)
                 /\ CallMatches(w) # {}
                 /\ \A r \in CallMatches(w) : r.nextToken = NoToken )
               => /\ calls'[w].pc = "create"
                  /\ calls'[w].first
                  /\ calls'[w].served = c.cand
                  /\ c.cand # c.supplied
                  /\ \E r \in ledger' : /\ r.renewToken = c.supplied
                                        /\ r.userID = c.token.Subject
                                        /\ r.nextToken = c.cand
            /\ RefreshCreate(w)
               => /\ calls'[w].pc = "update"
                  /\ \E r \in ledger' : /\ r.renewToken = c.cand
                                        /\ r.instanceID = c.token.InstanceID
                                        /\ r.userID = c.token.Subject
                                        /\ r.nextToken = NoToken
                                        /\ r.expiresAt > now
            /\ (RefreshRespond(w) /\ c.first)
               => /\ RefreshRespondResponse(w).status = 200
                  /\ RefreshRespondResponse(w).refreshToken = c.cand
                  /\ [userID |-> c.token.Subject, token |-> c.cand] \in served'
    ]_vars

C1_Witness ==
    \E e \in refreshed :
        /\ e.status = 200 /\ e.first /\ e.served # e.supplied
        /\ \E r \in ledger : r.renewToken = e.supplied /\ r.nextToken = e.served
        /\ \E r \in ledger : r.renewToken = e.served /\ r.userID = e.userID

\* C2: a request that repeats one answered with success before, while the
\* record of its token is still stored unexpired, succeeds with the token
\* served the first time; it never serves its own candidate and adds no
\* ledger record.
C2_RetryIsIdempotent ==
    [][\A w \in Workers :
        LET c == calls[w]
        IN  c.retry =>
            /\ (RefreshFind(w) /\ CallMatches(w) # {})
               => /\ calls'[w].pc = "update"
                  /\ ledger' = ledger
                  /\ \A e \in PriorAnswers(w) : calls'[w].served = e.served
            /\ ~RefreshCreate(w)
            /\ RefreshRespond(w)
               => /\ RefreshRespondResponse(w).status = 200
                  /\ RefreshRespondResponse(w).refreshToken # c.cand
                  /\ \A e \in PriorAnswers(w) :
                         RefreshRespondResponse(w).refreshToken = e.served
                  /\ ledger' = ledger
    ]_vars

C2_Witness ==
    \E e \in refreshed : e.retry /\ e.status = 200 /\ ~e.first /\ e.served # NoToken

\* C3: after a refresh presenting T0 has succeeded and served T1, a later
\* refresh presenting T0 again fails and is served neither a session token
\* nor a refresh token.
C3_ReusedTokenRejected ==
    \A e \in refreshed : e.retry => (e.status # 200 /\ e.served = NoToken)

\* what the handler does instead (the else branch of the first-use test):
\* a call that reuses an already rotated token T0 and reaches the find step
\* is refused there exactly when T0's record is no longer stored unexpired;
\* otherwise it goes on, and every accepted reuse is served the T1 of the
\* first use.
C3_ReuseServesStagedToken ==
    [][/\ \A e \in refreshed' :
            (e.retry /\ e.status = 200)
            => /\ ~e.first
               /\ \A e2 \in refreshed' :
                      ( /\ e2.userID = e.userID /\ e2.supplied = e.supplied
                        /\ e2.status = 200 ) => e2.served = e.served
       /\ \A w \in Workers :
            (calls[w].retry /\ RefreshFind(w))
            => /\ (RefreshFindResponse(w).status = 500) <=> (CallMatches(w) = {})
               /\ (CallMatches(w) = {}) <=> (calls'[w] = IdleCall)
    ]_vars

C3_Witness ==
    \E e1, e2 \in refreshed :
        /\ e1.userID = e2.userID /\ e1.supplied = e2.supplied
        /\ e1.first /\ e1.status = 200
        /\ e2.retry /\ e2.status = 200 /\ e2.served = e1.served

\* C4: a refresh whose token selects no ledger record of its (instance,
\* user) is answered with an error carrying no tokens; the call ends there:
\* no ledger record, user document, session token or served token changes.
C4_NoMatchIsError ==
    [][\A w \in Workers :
        (RefreshFind(w) /\ CallMatches(w) = {})
        => /\ RefreshFindResponse(w).status = 500
           /\ RefreshFindResponse(w).accessToken = NoClaims
           /\ RefreshFindResponse(w).refreshToken = NoToken
           /\ calls'[w] = IdleCall
           /\ ledger' = ledger /\ users' = users
           /\ sessions' = sessions /\ served' = served
    ]_vars

C4_Witness ==
    \E e \in refreshed :
        /\ e.status = 500 /\ ~e.retry /\ e.served = NoToken
        /\ users[e.userID].lastTokenRefresh = 0
        /\ \E r \in ledger : r.userID = e.userID

\* C5 as stated: after a refresh was rejected because its token selects no
\* record, no ledger record of that user remains.
C5_NoMatchRevokesAll ==
    [][\A w \in Workers :
        (RefreshFind(w) /\ CallMatches(w) = {})
        => \A r \in ledger' : r.userID # calls[w].token.Subject
    ]_vars

\* C6: requests presenting the same token of the same user, however their
\* steps interleave, are never answered with success carrying different
\* refresh tokens.
C6_NoDivergentSuccess ==
    \A e1, e2 \in refreshed :
        ( /\ e1.userID = e2.userID /\ e1.supplied = e2.supplied
          /\ e1.status = 200 /\ e2.status = 200 ) => e1.served = e2.served

\* two calls that overlapped (the second started before the first was
\* answered) both succeeded
C6_Witness ==
    \E e1, e2 \in refreshed :
        /\ e1.userID = e2.userID /\ e1.supplied = e2.supplied
        /\ e1.status = 200 /\ e1.first
        /\ e2.status = 200 /\ ~e2.first /\ ~e2.retry
        /\ e1.served = e2.served

-----------------------------------------------------------------------------
(* Properties of the ledger and of revocation *)

UnexpiredRecords(userID) ==
    {r \in ledger : r.userID = userID /\ r.expiresAt > now}

\* C7 as stated: per user the ledger holds at most one valid current token
\* and at most one staged next token.
C7_OneCurrentOneNext ==
    \A u \in UserIDs :
        /\ Cardinality({r.renewToken : r \in UnexpiredRecords(u)}) <= 1
        /\ Cardinality({r.nextToken : r \in UnexpiredRecords(u)} \ {NoToken}) <= 1

\* C7 amended: the ledger holds one record per issued token, and a user may
\* hold several valid records; each record has one current token and at
\* most one staged next token, which differs from its current token; no two
\* records share a current token, no token is staged in two records, and a
\* staged token that has a record of its own belongs to the same
\* (instance, user).
C7_RecordsWellFormed ==
    \A r1, r2 \in ledger :
        /\ r1.renewToken # NoToken
        /\ r1.nextToken # r1.renewToken
        /\ r1.renewToken = r2.renewToken => r1 = r2
        /\ (r1.nextToken # NoToken /\ r1.nextToken = r2.nextToken) => r1 = r2
        /\ r1.nextToken = r2.renewToken
           => (r1.userID = r2.userID /\ r1.instanceID = r2.instanceID)

C7_Witness ==
    \E r1, r2 \in ledger :
        /\ r1 # r2 /\ r1.userID = r2.userID
        /\ r1.expiresAt > now /\ r2.expiresAt > now
        /\ r1.nextToken # NoToken /\ r1.nextToken # r2.renewToken

\* C8 as stated: after revoke-all, no refresh token served to the user
\* before the revocation selects a ledger record any more, and the records
\* of other users are left as they were.
C8_RevokedTokensStayDead ==
    \A x \in revoked :
        \A r \in ledger : ~(r.userID = x.userID /\ r.renewToken = x.token)

C8_RevokeDeletesOwnRecords ==
    [][\A t \in sessions :
        RevokeRefreshTokens(t)
        => /\ \A r \in ledger' : r.userID # t.Subject
           /\ \A r \in ledger : r.userID # t.Subject => r \in ledger'
    ]_vars

\* C9 as stated: after revoke-all the user has no ledger record until a
\* fresh login or signup.
C9_RevokedAllIsTerminal ==
    \A u \in revokedAll : \A r \in ledger : r.userID # u

-----------------------------------------------------------------------------
(* Properties of the login throttle (SpecLogin) *)

\* the failed attempts recorded less than / at most `age` seconds ago
AttemptsNewerThan(attempts, age) ==
    Cardinality({i \in DOMAIN attempts : attempts[i] > now - age})

AttemptsNotOlderThan(attempts, age) ==
    Cardinality({i \in DOMAIN attempts : attempts[i] >= now - age})

\* C10: a login for an account with 10 or more failed attempts in the last
\* 300 seconds is rejected with 401 and issues no token, whatever the
\* password; with 9 or fewer it is not throttled and the password decides;
\* attempts older than 300 seconds do not count.
C10_ThrottleAtTenInWindow ==
    [][\A w \in Workers :
        /\ \A e \in Emails, p \in Passwords :
            (LoginGetUser(w, "i1", e, p) /\ UsersByAccountID("i1", e) # {})
            => LET user == users[LoginUser("i1", e)]
                   resp == LoginResponse("i1", e, p)
                   c == loginCalls'[w]
               IN  /\ AttemptsNewerThan(user.failedLoginAttempts, 300) >= 10
                      => /\ resp.status = 401
                         /\ resp.accessToken = NoClaims /\ resp.refreshToken = NoToken
                         /\ c.pc = "failed" /\ c.out = "throttled"
                         /\ nextTok' = nextTok
                   /\ AttemptsNotOlderThan(user.failedLoginAttempts, 300) <= 9
                      => IF p = OwnPassword(e)
                         THEN /\ resp.status = 200
                              /\ resp.refreshToken = nextTok
                              /\ c.pc = "create" /\ c.renewToken = nextTok
                         ELSE /\ resp.status = 401
                              /\ c.pc = "failed" /\ c.out = "mismatch"
        /\ LoginSaveFailed(w)
            => /\ LoginSaveFailedResponse(w).status = 401
               /\ LoginSaveFailedResponse(w).accessToken = NoClaims
               /\ LoginSaveFailedResponse(w).refreshToken = NoToken
               /\ ledger' = ledger /\ sessions' = sessions /\ served' = served
        /\ (LoginCreateRenewToken(w) /\ ~LoginCreateFails(w))
            => \E r \in ledger' : r.renewToken = loginCalls[w].renewToken
        /\ LoginRespond(w)
            => /\ loginCalls[w].out = "ok"
               /\ LoginRespondResponse(w).refreshToken = loginCalls[w].renewToken
    ]_vars

\* a login met ten attempts of the last 300 seconds and was turned away:
\* it is recorded as the eleventh attempt and no token exists
C10_Witness ==
    \E u \in DOMAIN users :
        LET a == users[u].failedLoginAttempts
        IN  /\ Len(a) = 11
            /\ a[1] > a[11] - 300
            /\ ledger = {} /\ served = {}

\* a login with the right password succeeded although ten or more failed
\* attempts are on record, all but nine of them older than 300 seconds
C10_WitnessOldAttempts ==
    \E u \in DOMAIN users :
        LET a == users[u].failedLoginAttempts
        IN  /\ Len(a) >= 10
            /\ users[u].lastLogin = now
            /\ AttemptsNotOlderThan(a, 300) <= 9
            /\ \E r \in ledger : r.userID = u /\ r.expiresAt = now + RenewTokenLifetime

-----------------------------------------------------------------------------
(* Properties of login and signup responses *)

\* the login requests a client can send to an allowed instance
LoginRequests == {"i1"} \X (Emails \cup {"ex"}) \X Passwords

\* the three rejections: the account is unknown, the password is wrong, the
\* attempt throttle is closed
LoginRejected(q) == LoginOutcome(q[1], q[2], q[3]) \in {"unknown", "mismatch", "throttled"}

\* the three rejections carry the same status and the same message
C11_SameStatusAndMessage ==
    \A q1, q2 \in LoginRequests :
        (LoginRejected(q1) /\ LoginRejected(q2))
        => LoginResponse(q1[1], q1[2], q1[3]) = LoginResponse(q2[1], q2[2], q2[3])

\* C11 as stated: a login rejected for an unknown account, a wrong password
\* or by the throttle gets the same status and message, and in each of the
\* three cases a randomized delay precedes the response.
C11_LoginFailuresIndistinguishable ==
    \A q \in LoginRequests :
        LoginRejected(q)
        => /\ LoginResponse(q[1], q[2], q[3]).status = 401
           /\ LoginResponse(q[1], q[2], q[3]).error = "invalid email or password"
           /\ LoginRandomWait(q[1], q[2], q[3]) > 0

\* a login with the right password for a known account of an allowed
\* instance whose throttle is open
GoodLogin(w, e, p) ==
    /\ LoginGetUser(w, "i1", e, p)
    /\ UsersByAccountID("i1", e) # {}
    /\ p = OwnPassword(e)
    /\ AttemptsNotOlderThan(users[LoginUser("i1", e)].failedLoginAttempts, 300) <= 9

\* the claims a good login mints: the account's id, the instance and the
\* main profile of the account
GoodLoginClaims(w, e) ==
    LET uid == LoginUser("i1", e)
        c == loginCalls'[w]
    IN  /\ c.pc = "create"
        /\ c.userID = uid
        /\ c.token.Subject = uid
        /\ c.token.InstanceID = "i1"
        /\ \E i \in DOMAIN users[uid].profiles :
               /\ users[uid].profiles[i].mainProfile
               /\ users[uid].profiles[i].id = c.token.MainProfileID
        /\ c.renewToken # NoToken

\* the ledger record CreateRenewToken writes for the request, but for the
\* staged token
GoodLoginRecord(w, staged) ==
    LET c == loginCalls[w]
    IN  \E r \in ledger' \ ledger :
            /\ r.renewToken = c.renewToken
            /\ r.instanceID = "i1" /\ r.userID = c.userID
            /\ r.expiresAt > now
            /\ (r.nextToken # NoToken) <=> staged

\* the answer carries the claims and the refresh token of the request
GoodLoginAnswer(w) ==
    LET resp == LoginRespondResponse(w)
    IN  /\ resp.status = 200
        /\ resp.accessToken = loginCalls[w].token
        /\ resp.refreshToken = loginCalls[w].renewToken

GoodLoginResult(staged) ==
    \A w \in Workers :
        /\ \A e \in Emails, p \in Passwords : GoodLogin(w, e, p) => GoodLoginClaims(w, e)
        /\ (LoginCreateRenewToken(w) /\ ~LoginCreateFails(w)) => GoodLoginRecord(w, staged)
        /\ LoginRespond(w) => GoodLoginAnswer(w)

\* C20 as stated: a good login returns session claims with the account's
\* id, the instance and the main profile, and a refresh token recorded in
\* the ledger with a next token already staged.
C20_LoginStagesNext == [][GoodLoginResult(TRUE)]_vars

\* C20 amended: the same, but the ledger record of the refresh token has
\* no next token staged (the first refresh stages it).
C20_LoginIssuesTokens == [][GoodLoginResult(FALSE)]_vars

C20_Witness ==
    \E r \in ledger, t \in sessions :
        /\ r.nextToken = NoToken /\ r.userID = t.Subject
        /\ t.MainProfileID = ProfileID(users[t.Subject].accountID)
        /\ users[t.Subject].lastLogin = now
        /\ [userID |-> r.userID, token |-> r.renewToken] \in served

-----------------------------------------------------------------------------
(* Properties of OTP verification *)

\* the code a client supplies is absent from the store, expired or different
OTPRejected(userID, code) ==
    \/ otps[userID].code = ""
    \/ otps[userID].expiresAt <= now
    \/ otps[userID].code # code

\* lastOTPProvided maps a presented session token may carry
PresentedOTPMaps ==
    {EmptyOTPMap, [k \in {"email"} |-> StartTime], [k \in {"sms"} |-> StartTime],
     [k \in {"sms", "email"} |-> StartTime]}

\* lastOTP is `presented` with the entry of otpType set to time t
OTPMapUpdated(lastOTP, presented, otpType, t) ==
    /\ DOMAIN lastOTP = DOMAIN presented \cup {otpType}
    /\ lastOTP[otpType] = t
    /\ \A k \in DOMAIN presented \ {otpType} : lastOTP[k] = presented[k]

\* C18: an absent, expired or mismatched code is answered with the
\* invalid-code error, carries no tokens and changes no state; a verified
\* code of type T yields a session token whose lastOTPProvided has T set to
\* the time of verification and every other entry as in the presented token.
C18_VerifyOTP ==
    [][\A w \in Workers :
        /\ \A t \in sessions, c \in OTPCodes \cup {"cx"} :
            LET resp == VerifyOTPResponse(t, c)
            IN  /\ OTPRejected(t.Subject, c)
                   => /\ resp.status = 401 /\ resp.error = "invalid code"
                      /\ resp.accessToken = NoClaims /\ resp.refreshToken = NoToken
                      /\ \A consumed \in BOOLEAN : ~VerifyOTPCheck(w, t, c, consumed)
                /\ \A consumed \in BOOLEAN :
                       VerifyOTPCheck(w, t, c, consumed)
                       => /\ otpCalls'[w].token = t
                          /\ otpCalls'[w].otpType = otps[t.Subject].type
                          /\ ledger' = ledger /\ sessions' = sessions
                /\ (~OTPRejected(t.Subject, c) /\ UserExists(t.InstanceID, t.Subject))
                   => \A m \in PresentedOTPMaps :
                          OTPMapUpdated(
                              VerifyOTPToken([t EXCEPT !.LastOTPProvided = m]).LastOTPProvided,
                              m, otps[t.Subject].type, now)
        /\ (VerifyOTPGetUser(w) /\ ~VerifyOTPGetUserFails(w))
            => /\ OTPMapUpdated(otpCalls'[w].newToken.LastOTPProvided,
                                otpCalls[w].token.LastOTPProvided, otpCalls[w].otpType, now)
               /\ ledger' = ledger /\ sessions' = sessions
        /\ (VerifyOTPCreate(w) /\ ~VerifyOTPCreateFails(w))
            => LET resp == VerifyOTPCreateResponse(w)
               IN  /\ resp.status = 200
                   /\ resp.accessToken = otpCalls[w].newToken
                   /\ resp.accessToken \in sessions'
                   /\ sessions' \ sessions \subseteq {otpCalls[w].newToken}
                   /\ \E r \in ledger' \ ledger : r.renewToken = resp.refreshToken
    ]_vars

\* a token that already carried an OTP time was presented again after the
\* clock advanced and was re-minted with the new time
C18_Witness ==
    \E t1, t2 \in sessions :
        /\ t1.Subject = t2.Subject
        /\ "email" \in DOMAIN t1.LastOTPProvided /\ "email" \in DOMAIN t2.LastOTPProvided
        /\ t1.LastOTPProvided["email"] < t2.LastOTPProvided["email"]
        /\ t2.LastOTPProvided["email"] = now

-----------------------------------------------------------------------------
(* Signup rate limit *)

SignupRequests == (Emails \cup {"e3"}) \X Passwords

\* C12: while the accounts created in the instance within the last 300
\* seconds have reached the cap, a signup is answered with the rate-limit
\* error and creates no account, no ledger record and no verification
\* message.
C12_SignupRateLimited ==
    [][\A q \in SignupRequests :
        CountRecentlyCreatedUsers("i1", 300) >= maxNewUsersPer5Minute
        => /\ SignupResponse("i1", q[1], q[2], "") = ErrorResponse(429, "try again later")
           /\ \A w \in Workers : ~SignupCountUsers(w, "i1", q[1], q[2], "")
    ]_vars

\* the cap is reached by an account created earlier in the window, and a
\* signup for an address without account is turned away
C12_Witness ==
    /\ \E u \in DOMAIN users : users[u].createdAt < now /\ users[u].createdAt > now - 300
    /\ SignupOutcome("i1", "e2", "p2", "") = "ratelimit"
    /\ UsersByAccountID("i1", "e2") = {}

-----------------------------------------------------------------------------
(* Verify-email: purposes *)

\* a stored, unexpired token whose instance, user and info are those of an
\* account, so that only its purpose can stand in the way
TokenOfAccount(r) ==
    /\ r.expiresAt > now
    /\ UserExists(r.instanceID, r.userID)
    /\ r.info = ContactInfoOf(users[r.userID].accountID)

\* C14: verify-email accepts a token only if its purpose is contact
\* verification or invitation; a stored, unexpired password-reset token is
\* answered with the invalid-token error and the account stays as it is.
C14_VerifyEmailPurpose ==
    [][\A r \in tempTokens :
        /\ (r.purpose = "password-reset" /\ r.expiresAt > now)
           => /\ VerifyEmailResponse(r.token) = ErrorResponse(400, "invalid token")
              /\ \A w \in Workers : ~VerifyEmailValidate(w, r.token)
        /\ VerifyEmailResponse(r.token).status = 200
           => r.purpose \in {"contact-verification", "invitation"}
        /\ (TokenOfAccount(r) /\ r.purpose \in {"contact-verification", "invitation"})
           => VerifyEmailResponse(r.token).status = 200
        /\ \A w \in Workers :
               (VerifyEmailGetUser(w) \/ VerifyEmailReplace(w))
               => verifyCalls[w].tokenInfos.purpose \in {"contact-verification", "invitation"}
    ]_vars

\* a password-reset token of an account is in the store, next to an
\* invitation of the same account that verify-email accepts
C14_Witness ==
    \E r1, r2 \in tempTokens :
        /\ r1.purpose = "password-reset" /\ TokenOfAccount(r1)
        /\ r2.purpose = "invitation" /\ TokenOfAccount(r2)
        /\ r1.userID = r2.userID
        /\ VerifyEmailOutcome(r2.token) = "ok"

-----------------------------------------------------------------------------
(* Verify-email: the token after its use *)

\* the stored record of an accepted token has not expired at time t
UnexpiredAt(token, t) == \A r \in TempTokenLookup(token) : r.expiresAt > t

\* C15: a successful verify-email leaves the token record as it is, and
\* the token it accepted is accepted again for as long as it has not
\* expired.
C15_TokenReusable ==
    [][/\ \A w \in Workers :
            /\ \A tok \in PresentableTempTokens :
                   VerifyEmailValidate(w, tok) => tempTokens' = tempTokens
            /\ VerifyEmailGetUser(w) => tempTokens' = tempTokens
            /\ (VerifyEmailReplace(w) /\ ~VerifyEmailReplaceFails(w))
               => /\ tempTokens' = tempTokens
                  /\ VerifyEmailReplaceResponse(w).status = 200
                  /\ \A tok \in PresentableTempTokens :
                         (tok = verifyCalls[w].tokenInfos.token /\ UnexpiredAt(tok, now))
                         => (VerifyEmailOutcome(tok))' = "ok"
       /\ \A tok \in PresentableTempTokens :
            (VerifyEmailOutcome(tok) = "ok" /\ UnexpiredAt(tok, now'))
            => (VerifyEmailOutcome(tok))' = "ok"
    ]_vars

\* a token confirmed the account at an earlier time and is accepted now
C15_Witness ==
    \E r \in tempTokens :
        /\ r.purpose = "contact-verification"
        /\ UserExists(r.instanceID, r.userID)
        /\ users[r.userID].createdAt >= StartTime
        /\ users[r.userID].accountConfirmedAt > 0
        /\ users[r.userID].accountConfirmedAt < now
        /\ VerifyEmailOutcome(r.token) = "ok"

-----------------------------------------------------------------------------
(* Resend cooldown *)

\* a request that arrives less than 60 seconds after the timestamp the
\* store holds for the contact is turned away with the throttle error after
\* a random wait, and no resend step is taken for it
C16_RequestInCooldownRejected ==
    [][\A t \in sessions, e \in Emails :
        (/\ UserExists(t.InstanceID, t.Subject)
         /\ \E i \in DOMAIN users[t.Subject].contactInfos :
                /\ users[t.Subject].contactInfos[i].email = e
                /\ now - users[t.Subject].contactInfos[i].confirmationLinkSentAt < 60)
        => /\ ResendResponse(t, e) = ErrorResponse(429, "try again later")
           /\ ResendRandomWait(t, e) > 0
           /\ \A w \in Workers : ~ResendGetUser(w, t, e)
    ]_vars

\* C16: in every sequence and interleaving of resend requests, two accepted
\* resends for one contact are at least 60 seconds apart.
C16_AcceptedResendsApart ==
    \A i, j \in DOMAIN resendLog :
        (i < j /\ resendLog[i].userID = resendLog[j].userID
               /\ resendLog[i].email = resendLog[j].email)
        => resendLog[j].at - resendLog[i].at >= 60

-----------------------------------------------------------------------------
(* Instance allowlist *)

\* login and signup turn an instance outside the allowlist away with the
\* invalid-instance error before they touch a store
C13_LoginAndSignupCheckFirst ==
    \A i \in InstanceIDs \ AllowedInstanceIDs, e \in Emails, pw \in Passwords :
        /\ LoginResponse(i, e, pw) = ErrorResponse(401, "invalid instance id")
        /\ LoginStoreAccess(i, e, pw) = {}
        /\ SignupResponse(i, e, pw, "") = ErrorResponse(401, "invalid instance id")
        /\ SignupStoreAccess(i, e, pw, "") = {}

\* C13: on every endpoint a request for an instance outside the allowlist
\* is rejected before the user store, the ledger or the verification-token
\* store is read or written; for verify-email the instance of the request
\* is the one its token was issued for.
C13_AllowlistBeforeStores ==
    /\ C13_LoginAndSignupCheckFirst
    /\ \A r \in tempTokens :
          ~isInstanceAllowed(r.instanceID) => VerifyEmailStoreAccess(r.token) = {}

-----------------------------------------------------------------------------
(* Expired session tokens *)

ExpiredSessions == {t \in sessions : t.ExpiresAt < now}

\* C17: an expired, correctly signed session token gets past the
\* middleware of the refresh route only; on validate, revoke, resend,
\* request-OTP and verify-OTP it is rejected and the handler does not run.
C17_ExpiredOnlyOnRefresh ==
    /\ expiredUse \subseteq {"/auth/token/renew"}
    /\ \A t \in ExpiredSessions, route \in ProtectedRoutes :
          ValidateParticipantUserJWT(t, RouteIgnoresExpiration(route))
              <=> route = "/auth/token/renew"

\* a refresh was presented an expired session token, and a refresh of the
\* account succeeded at a time when every session token minted for it
\* earlier had expired
C17_Witness ==
    /\ "/auth/token/renew" \in expiredUse
    /\ \E t \in ExpiredSessions :
          /\ UserExists(t.InstanceID, t.Subject)
          /\ users[t.Subject].lastTokenRefresh = now
          /\ users[t.Subject].lastLogin < now
          /\ \A t2 \in sessions :
                (t2.Subject = t.Subject /\ t2.ExpiresAt # now + AccessTokenTTL)
                => t2 \in ExpiredSessions

-----------------------------------------------------------------------------
(* Session tokens of accounts that are gone *)

StaleSessions == {t \in sessions : ~UserExists(t.InstanceID, t.Subject)}

\* refresh, verify-OTP and resend look the account up and turn the request
\* away when it is gone; none of them writes the ledger or the user store
C19_LookupsReject ==
    [][\A t \in StaleSessions :
        /\ RefreshGetUserResponse(t).status = 401
        /\ \A w \in Workers, s \in PresentableTokens : ~RefreshGetUser(w, t, s)
        /\ \A e \in Emails :
              /\ ResendResponse(t, e).status = 401
              /\ \A w \in Workers : ~ResendGetUser(w, t, e)
        /\ \A c \in OTPCodes \cup {"cx"} :
              /\ VerifyOTPResponse(t, c).status = 401
              /\ \A w \in Workers, consumed \in BOOLEAN :
                    VerifyOTPCheck(w, t, c, consumed) => UNCHANGED <<ledger, users, sessions>>
        /\ \A w \in Workers :
              (otpCalls[w].token = t /\ VerifyOTPGetUser(w))
              => /\ VerifyOTPGetUserFails(w)
                 /\ VerifyOTPGetUserResponse(w).status = 401
                 /\ otpCalls'[w] = IdleOTP
                 /\ UNCHANGED <<ledger, users, sessions>>
    ]_vars

\* C19: refresh, verify-OTP, resend and revoke, called with a valid session
\* token of an account that is no longer in the store, are rejected and
\* change neither the ledger nor any other record.
C19_StaleAccountRejected ==
    [][\A t \in StaleSessions :
        /\ RefreshGetUserResponse(t).status # 200
        /\ \A e \in Emails : ResendResponse(t, e).status # 200
        /\ \A c \in OTPCodes \cup {"cx"} : VerifyOTPResponse(t, c).status # 200
        /\ RevokeResponse(t).status # 200
        /\ RevokeRefreshTokens(t) => ledger' = ledger
    ]_vars

-----------------------------------------------------------------------------
(* Attempt lists after a write *)

\* the accounts a step wrote
WrittenAccounts ==
    {u \in DOMAIN users' : u \notin DOMAIN users \/ users'[u] # users[u]}

NoneOlderThan(attempts, window) ==
    \A i \in DOMAIN attempts : attempts[i] >= now - window

\* a successful login prunes the lists to the retention of lines 153-154:
\* 3600 seconds for failed logins, 7200 for reset triggers
C21_LoginPrunesToRetention ==
    [][\A w \in Workers :
        LoginReplaceUser(w)
        => \A u \in WrittenAccounts :
              /\ NoneOlderThan(users'[u].failedLoginAttempts, 3600)
              /\ NoneOlderThan(users'[u].passwordResetTriggers, 7200)
    ]_vars

\* C21: after every write of a handler to an account, the failed-login
\* list of the account holds no timestamp older than the 300 second login
\* window, and the reset-trigger list none older than its window.
C21_ListsWithinWindow ==
    [][\A u \in WrittenAccounts :
        /\ NoneOlderThan(users'[u].failedLoginAttempts, 300)
        /\ NoneOlderThan(users'[u].passwordResetTriggers, resetTriggerRetention)
    ]_vars

-----------------------------------------------------------------------------
(* Main profile *)

MainProfiles(user) == {i \in DOMAIN user.profiles : user.profiles[i].mainProfile}

\* RemoveProfile on the main profile returns an error and leaves the list
\* as it is; UpdateProfile keeps the stored flag whatever is supplied; both
\* keep the number of main profiles
C22_UpdateAndRemoveKeepMain ==
    \A p \in SuppliedProfiles(users["u1"]) :
        LET user == users["u1"]
        IN  /\ (ProfileIndexes(user, p.id) # {}
                /\ user.profiles[FirstProfile(user, p.id)].mainProfile)
               => /\ RemoveProfileError(user, p.id) = "cannot remove main profile"
                  /\ RemoveProfile(user, p.id) = user
            /\ ProfileIndexes(user, p.id) # {}
               => UpdateProfile(user, p).profiles[FirstProfile(user, p.id)].mainProfile
                      = user.profiles[FirstProfile(user, p.id)].mainProfile
            /\ MainProfiles(UpdateProfile(user, p)) = MainProfiles(user)
            /\ Cardinality(MainProfiles(RemoveProfile(user, p.id)))
                   = Cardinality(MainProfiles(user))

\* C22: starting from a user with exactly one main profile, after any
\* sequence of AddProfile, UpdateProfile and RemoveProfile the user has
\* exactly one profile flagged main.
C22_ExactlyOneMain ==
    Cardinality(MainProfiles(users["u1"])) = 1

-----------------------------------------------------------------------------
(* Password hashes *)

\* the hashes HashPassword returned
HashedEncodings == {h.encodedHash : h \in hashed}

\* the password a returned hash was made from
HashedPassword(encodedHash) ==
    (CHOOSE h \in hashed : h.encodedHash = encodedHash).password

\* the parameters a returned hash was made with
EmbeddedParams(encodedHash) == decodeHash(encodedHash).p

\* C23: comparing a password with a hash HashPassword returned matches exactly
\* when the password is the hashed one, without an error, whatever parameters
\* the comparing process runs with.
C23_RoundTrip ==
    (compared.called /\ compared.encodedHash \in HashedEncodings)
        => /\ ~compared.panics
           /\ compared.err = ""
           /\ compared.match = (compared.password = HashedPassword(compared.encodedHash))

\* a hash was compared with its password by a process running with other
\* parameters than the hash was made with, and matched
C23_Witness ==
    /\ compared.called /\ compared.encodedHash \in HashedEncodings
    /\ compared.match
    /\ EmbeddedParams(compared.encodedHash).memory # argonParams.memory
    /\ EmbeddedParams(compared.encodedHash).iterations # argonParams.iterations

-----------------------------------------------------------------------------
(* Errors of ComparePasswordWithHash *)

\* a field of the encoded hash cannot be parsed
GarbledField(encodedHash) ==
    \/ ScanVersion(encodedHash[3]).err # ""
    \/ ScanParams(encodedHash[4]).err # ""
    \/ DecodeString(encodedHash[5]).err # ""
    \/ DecodeString(encodedHash[6]).err # ""

Garbled(encodedHash) == Len(encodedHash) # 6 \/ GarbledField(encodedHash)

\* every field can be parsed and the version is another one
OtherVersion(encodedHash) ==
    ~Garbled(encodedHash) /\ ScanVersion(encodedHash[3]).version # argon2Version

\* A hash that does not split into six fields gives ErrInvalidHash, a hash of
\* six parsable fields with another version gives ErrIncompatibleVersion, and
\* no call that returns an error reports a match.
C24_FieldCountAndVersion ==
    compared.called =>
        /\ Len(compared.encodedHash) # 6 => compared.err = "ErrInvalidHash"
        /\ OtherVersion(compared.encodedHash) => compared.err = "ErrIncompatibleVersion"
        /\ compared.err # "" => ~compared.match

\* C24: a hash that does not split into six fields or has a field that cannot
\* be parsed gives ErrInvalidHash, a well-formed hash with another version
\* gives ErrIncompatibleVersion, and the match is false in both cases.
C24_ErrorTaxonomy ==
    compared.called =>
        /\ Garbled(compared.encodedHash)
               => compared.err = "ErrInvalidHash" /\ ~compared.match
        /\ OtherVersion(compared.encodedHash)
               => compared.err = "ErrIncompatibleVersion" /\ ~compared.match

\* A call with a hash decodeHash rejects returns no match and the error.
C25_RejectedHashReturns ==
    (compared.called /\ decodeHash(compared.encodedHash).err # "")
        => ~compared.panics /\ ~compared.match /\ compared.err # ""

\* C25: no call of ComparePasswordWithHash panics, whatever the encoded hash.
C25_NeverPanics == ~compared.panics

-----------------------------------------------------------------------------
(* Notification dispatch *)

\* Signup and resend answer when the verification job has been started and
\* has handed nothing to the mail transport yet.
C26_SignupAndResendAnswerFirst ==
    [][Len(pending') > Len(pending) => outbox' = outbox]_vars

\* C26: the response of a request that dispatches a notification is the same
\* whether the send succeeds or fails; signup and resend start the send as a
\* job of its own, and for the OTP request the response with a failing send is
\* the response with a successful one.
C26_ResponseWhateverTheSend ==
    /\ \A t \in sessions :
           RequestOTPResponse(t, "email", TRUE) = RequestOTPResponse(t, "email", FALSE)
    /\ \A w \in Workers :
           requestCalls[w].pc = "send"
           => RequestOTPSendResponse(w, TRUE) = RequestOTPSendResponse(w, FALSE)

\* the OTP request answers only when its send has ended: until then the
\* code is stored and nothing of the request is in the outbox, and the send
\* step changes nothing but the outbox
C26_OTPRequestSendsBeforeAnswering ==
    [][\A w \in Workers :
        /\ \A t \in sessions, c \in OTPCodes :
               RequestOTPStore(w, t, "email", c)
               => /\ outbox' = outbox
                  /\ otps'[t.Subject].code = c
                  /\ requestCalls'[w].pc = "send"
        /\ \A ok \in BOOLEAN :
               RequestOTPSend(w, ok)
               => /\ otps' = otps /\ users' = users
                  /\ outbox' \ outbox \subseteq
                         {OTPMessage(requestCalls[w].token.InstanceID,
                                     requestCalls[w].email, requestCalls[w].code)}
                  /\ ok => \E m \in outbox' : m.code = requestCalls[w].code
    ]_vars

\* a send is outstanding for a code that was verified and consumed, or
\* replaced by a second request, or has expired
C26_WitnessSendOfStaleCode ==
    \E w \in Workers :
        /\ requestCalls[w].pc = "send"
        /\ UserExists(requestCalls[w].token.InstanceID, requestCalls[w].token.Subject)
        /\ ~OTPValid(requestCalls[w].token.Subject, requestCalls[w].code)

\* a send is outstanding for an account that was deleted after the code was
\* stored
C26_WitnessSendForDeletedAccount ==
    \E w \in Workers :
        /\ requestCalls[w].pc = "send"
        /\ ~UserExists(requestCalls[w].token.InstanceID, requestCalls[w].token.Subject)

-----------------------------------------------------------------------------
(* Contact infos and their references *)

\* the ids the contact preferences refer to
Referenced(user) == {user.sendNewsletterTo[i] : i \in DOMAIN user.sendNewsletterTo}

\* s without the entries equal to id, the others in order
Without(s, id) == SelectSeq(s, LAMBDA x : x # id)

\* RemoveContactInfo refuses the main address and removes exactly the contact
\* info of any other id it finds.
C27_RemovesTheContact ==
    \A id \in ContactIDs(users["u1"]) :
        LET user == users["u1"]
            after == RemoveContactInfo(user, id)
        IN  /\ RemoveContactInfoError(user, id) = "cannot remove main address"
                   => after = user
            /\ RemoveContactInfoError(user, id) = ""
                   => /\ ContactsWithID(after, id) = {}
                      /\ Len(after.contactInfos) = Len(user.contactInfos) - 1

\* C27: RemoveContactInfo of an existing contact info that is not the main
\* address removes it from the contact infos and removes the references to
\* its id from the contact preferences.
C27_RemovalCleansReferences ==
    \A id \in ContactIDs(users["u1"]) :
        LET user == users["u1"]
            after == RemoveContactInfo(user, id)
        IN  RemoveContactInfoError(user, id) = ""
                => /\ ContactsWithID(after, id) = {}
                   /\ id \notin Referenced(after)

\* RemoveContactInfoFromContactPreferences removes the first reference to the
\* id and keeps every other entry in order.
C28_RemovesFirstReference ==
    \A id \in ContactIDs(users["u1"]) :
        LET user == users["u1"]
            after == RemoveContactInfoFromContactPreferences(user, id)
        IN  /\ Without(after.sendNewsletterTo, id) = Without(user.sendNewsletterTo, id)
            /\ id \in Referenced(user)
                   => Len(after.sendNewsletterTo) = Len(user.sendNewsletterTo) - 1
            /\ after.contactInfos = user.contactInfos

\* C28: after RemoveContactInfoFromContactPreferences the list has no entry
\* equal to the id, also when the id occurred more than once, and the other
\* entries are kept in order.
C28_NoReferenceLeft ==
    \A id \in ContactIDs(users["u1"]) :
        LET user == users["u1"]
            after == RemoveContactInfoFromContactPreferences(user, id)
        IN  /\ id \notin Referenced(after)
            /\ after.sendNewsletterTo = Without(user.sendNewsletterTo, id)

-----------------------------------------------------------------------------
(* Served refresh tokens and the ledger *)

\* the ledger holds the token as a stored token of the user
StoredFor(led, instanceID, userID, token) ==
    \E r \in led : r.instanceID = instanceID /\ r.userID = userID /\ r.renewToken = token

\* worker w sends a success response in this step
RefreshAnswers(w) ==
    /\ calls[w].pc = "update"
    /\ calls'[w].pc = "idle"
    /\ RefreshRespondResponse(w).status = 200

\* A call that found its token unused stores its candidate before it goes on
\* to the response.
C29_FirstUseStoresCandidate ==
    [][\A w \in Workers :
          (calls[w].pc = "create" /\ calls'[w].pc = "update")
              => /\ calls[w].served = calls[w].cand
                 /\ StoredFor(ledger', calls[w].token.InstanceID, calls[w].token.Subject,
                              calls[w].cand)]_vars

\* C29: when a refresh call sends a success response, the refresh token in it
\* is in the ledger as a stored token of the user, in every interleaving of
\* concurrent calls presenting the same token.
C29_ServedTokenStored ==
    [][\A w \in Workers :
          RefreshAnswers(w)
              => StoredFor(ledger, calls[w].token.InstanceID, calls[w].token.Subject,
                           calls[w].served)]_vars

-----------------------------------------------------------------------------
(* Password hashes in responses *)

\* The success responses of login, signup, refresh and verify-email carry the
\* account with an empty password.
C30_BlankedInFourHandlers ==
    \A w \in Workers :
        /\ loginCalls[w].pc = "respond"
           => /\ LoginRespondResponse(w).status = 200
              /\ LoginResponseUser(w).password = NoPassword
        /\ (signupCalls[w].pc = "create" /\ SignupCreateResponse(w, TRUE).status = 200)
           => SignupResponseUser(w).password = NoPassword
        /\ (calls[w].pc = "update" /\ RefreshRespondResponse(w).status = 200)
           => RefreshResponseUser(w).password = NoPassword
        /\ (verifyCalls[w].pc = "replace" /\ VerifyEmailReplaceResponse(w).status = 200)
           => VerifyEmailResponseUser(w).password = NoPassword

\* C30: no success response of login, signup, refresh, verify-email or
\* verify-OTP carries the stored password hash: the account in the response
\* has an empty password.
C30_NoHashInResponses ==
    /\ C30_BlankedInFourHandlers
    /\ \A w \in Workers :
           (otpCalls[w].pc = "create" /\ VerifyOTPCreateResponse(w).status = 200)
           => VerifyOTPResponseUser(w).password = NoPassword

-----------------------------------------------------------------------------
(* The throttle records the requests it turns away *)

\* the request side: while ten attempts are inside the window a login is
\* bound for the throttle rejection whatever its password, and the rejection
\* is appended to the stored list and issues nothing
C31_RejectionIsRecorded ==
    [][\A w \in Workers :
        /\ \A e \in Emails :
            UsersByAccountID("i1", e) # {}
            => LET u == LoginUser("i1", e)
                   a == users[u].failedLoginAttempts
               IN  LoginThrottled(a)
                   => /\ LoginResponse("i1", e, OwnPassword(e)).status = 401
                      /\ \A p \in Passwords :
                             LoginGetUser(w, "i1", e, p)
                             => /\ loginCalls'[w].pc = "failed"
                                /\ loginCalls'[w].out = "throttled"
        /\ (LoginSaveFailed(w) /\ loginCalls[w].out = "throttled"
                /\ loginCalls[w].userID \in DOMAIN users)
            => LET u == loginCalls[w].userID
               IN  /\ users'[u].failedLoginAttempts
                          = Append(users[u].failedLoginAttempts, now)
                   /\ lastThrottled' = now
                   /\ ledger' = ledger /\ sessions' = sessions
    ]_vars

\* C31: a login turned away by the throttle is recorded as a failed attempt,
\* so the lockout extends itself: while the clock stands still no request
\* ends the lockout of an account, and no login is answered with success
\* for an account that is locked out.
C31_LockoutExtendsItself ==
    [][\A u \in DOMAIN users \cap DOMAIN users' :
        (LoginThrottled(users[u].failedLoginAttempts) /\ now' = now)
        => /\ LoginThrottled(users'[u].failedLoginAttempts)
           /\ \A w \in Workers :
                  (LoginRespond(w) /\ loginCalls[w].userID = u)
                  => LoginRespondResponse(w).status # 200
    ]_vars

\* ten failed logins were recorded while a login with the right password was
\* between GetUserByAccountID and ReplaceUser: the account is locked out and
\* the login in flight holds a copy of the list from before the failures
C31_WitnessLoginAcrossLockout ==
    \E w \in Workers :
        /\ loginCalls[w].pc = "replace"
        /\ UserExists(loginCalls[w].instanceID, loginCalls[w].userID)
        /\ LoginThrottled(users[loginCalls[w].userID].failedLoginAttempts)
        /\ ~LoginThrottled(loginCalls[w].user.failedLoginAttempts)

-----------------------------------------------------------------------------
(* Failed attempts across a successful login *)

\* the pruning rule on the copy the request read: ReplaceUser writes the
\* list of the copy without the timestamps older than 3600 seconds, and the
\* failures of the last 300 seconds in the copy count as before
C32_PrunesTheCopy ==
    [][\A w \in Workers :
        (LoginReplaceUser(w) /\ ~LoginReplaceFails(w))
        => LET u == loginCalls[w].userID
               a == loginCalls[w].user.failedLoginAttempts
           IN  /\ users'[u].failedLoginAttempts = SelectSeq(a, LAMBDA t : t >= now - 3600)
               /\ CountRecent(users'[u].failedLoginAttempts, loginFailedAttemptWindow, now)
                      = CountRecent(a, loginFailedAttemptWindow, now)
    ]_vars

\* C32: a successful login removes from the stored failed-login list the
\* timestamps older than 3600 seconds and no other, so the failures of the
\* last 300 seconds count for the next attempts as they did before.
C32_SuccessKeepsRecentFailures ==
    [][\A w \in Workers :
        (LoginReplaceUser(w) /\ ~LoginReplaceFails(w))
        => LET u == loginCalls[w].userID
               a == users[u].failedLoginAttempts
           IN  /\ users'[u].failedLoginAttempts = SelectSeq(a, LAMBDA t : t >= now - 3600)
               /\ CountRecent(users'[u].failedLoginAttempts, loginFailedAttemptWindow, now)
                      = CountRecent(a, loginFailedAttemptWindow, now)
    ]_vars

\* a failed login was recorded after a login with the right password read
\* the account and before it wrote the account back
C32_WitnessFailureDuringLogin ==
    \E w \in Workers :
        /\ loginCalls[w].pc = "replace"
        /\ UserExists(loginCalls[w].instanceID, loginCalls[w].userID)
        /\ Len(users[loginCalls[w].userID].failedLoginAttempts)
               > Len(loginCalls[w].user.failedLoginAttempts)

\* nine failures, a successful login after them, and a tenth failure inside
\* the window of the first: the account is throttled
C32_Witness ==
    \E u \in DOMAIN users :
        LET a == users[u].failedLoginAttempts
        IN  /\ Len(a) = 10
            /\ a[9] < users[u].lastLogin
            /\ users[u].lastLogin <= a[10]
            /\ LoginThrottled(a)

\* a successful login dropped failures that were more than an hour old and
\* kept the later ones
C32_WitnessPruned ==
    \E u \in DOMAIN users :
        LET a == users[u].failedLoginAttempts
        IN  /\ users[u].lastLogin = now
            /\ a # <<>>
            /\ a[1] > StartTime
            /\ now - 3600 > StartTime

-----------------------------------------------------------------------------
(* Step-up state of minted session tokens *)

\* C33: a session token minted by login or by signup carries an empty
\* lastOTPProvided; a session token minted by refresh carries the
\* lastOTPProvided of the token the call presented, expired or not.
C33_StepUpStateCarried ==
    [][/\ \A w \in Workers :
              /\ \A i \in InstanceIDs, e \in Emails :
                     LoginGetUser(w, i, e, OwnPassword(e))
                     => loginCalls'[w].token.LastOTPProvided = EmptyOTPMap
              /\ LoginRespond(w)
                 => /\ LoginRespondResponse(w).accessToken.LastOTPProvided = EmptyOTPMap
                    /\ \A t \in sessions' \ sessions : t.LastOTPProvided = EmptyOTPMap
              /\ (SignupAddUser(w) /\ ~SignupAddUserFails(w))
                 => signupCalls'[w].token.LastOTPProvided = EmptyOTPMap
              /\ SignupCreateRenewToken(w, TRUE)
                 => /\ SignupCreateResponse(w, TRUE).accessToken.LastOTPProvided = EmptyOTPMap
                    /\ \A t \in sessions' \ sessions : t.LastOTPProvided = EmptyOTPMap
       /\ \A w \in Workers :
              RefreshRespond(w)
              => /\ RefreshRespondResponse(w).status = 200
                    => RefreshRespondResponse(w).accessToken.LastOTPProvided
                           = calls[w].token.LastOTPProvided
                 /\ \A t \in sessions' \ sessions :
                        t.LastOTPProvided = calls[w].token.LastOTPProvided
    ]_vars

\* a session token minted after the first step of the clock that carries a
\* one-time code confirmed at the start: a refresh copied it from a token
\* that had expired
C33_Witness ==
    \E t \in sessions :
        /\ t.ExpiresAt > StartTime + AccessTokenTTL
        /\ DOMAIN t.LastOTPProvided = {"email"}
        /\ t.LastOTPProvided["email"] = StartTime
        /\ \E r \in refreshed : r.status = 200

-----------------------------------------------------------------------------
(* Signup that does not answer with success *)

\* C34: a signup request that is not answered with success leaves no account
\* for its email and starts no verification message.
C34_SignupAllOrNothing ==
    [][\A w \in Workers, renewStored \in BOOLEAN :
        (/\ SignupCreateRenewToken(w, renewStored)
         /\ SignupCreateResponse(w, renewStored).status # 200)
        => /\ \A u \in DOMAIN users' : users'[u].accountID # signupCalls[w].email
           /\ \A i \in DOMAIN pending' : pending'[i].email # signupCalls[w].email
           /\ \A m \in outbox' : m.to # signupCalls[w].email
    ]_vars

\* the failures up to AddUser (validation, honeypot, instance, rate limit,
\* refused AddUser) leave the user store and the verification jobs as they were
C34_EarlyFailuresChangeNothing ==
    [][\A w \in Workers :
        /\ \A i \in InstanceIDs, e \in Emails \cup {""}, c \in {"", "x"} :
               SignupOutcome(i, e, OwnPassword(e), c)
                   \in {"missing", "honeypot", "instance", "ratelimit"}
               => ~SignupCountUsers(w, i, e, OwnPassword(e), c)
        /\ (SignupAddUser(w) /\ SignupAddUserFails(w))
           => /\ SignupAddUserResponse(w).status = 500
              /\ users' = users /\ pending' = pending /\ ledger' = ledger
    ]_vars

\* an account whose signup was answered 500: it has no refresh token and was
\* never served one, and its verification message went out
C34_WitnessOrphanAccount ==
    \E u \in DOMAIN users \ {"u1"} :
        /\ \A r \in ledger : r.userID # u
        /\ \A x \in served : x.userID # u
        /\ \E m \in outbox : m.to = users[u].accountID

-----------------------------------------------------------------------------
(* A refresh token presented by another account *)

\* the supplied refresh token is stored, and only for accounts other than
\* the one of the presented session token
StoredForAnotherUser(token, supplied) ==
    /\ \E r \in ledger : r.renewToken = supplied
    /\ \A r \in ledger :
           r.renewToken = supplied
           => (r.userID # token.Subject \/ r.instanceID # token.InstanceID)

\* C35: a refresh call that presents the session token of one account and a
\* refresh token stored for another account, of the same instance or of
\* another one, is answered with an error, is served no token and leaves
\* the ledger as it was.
C35_RefreshTokenBoundToOwner ==
    [][\A w \in Workers :
        (RefreshFind(w) /\ StoredForAnotherUser(calls[w].token, calls[w].supplied))
        => /\ RefreshFindResponse(w).status = 500
           /\ RefreshEntry(calls[w], 500, NoToken) \in refreshed'
           /\ calls'[w] = IdleCall
           /\ ledger' = ledger
           /\ served' = served
           /\ sessions' = sessions
    ]_vars

\* a call answered 500 whose supplied token is the untouched, unexpired
\* record of account a, presented with a session token of account b
RefusedOnRecordOf(a, b) ==
    \E r \in refreshed, d \in ledger :
        /\ r.status = 500
        /\ r.userID = b
        /\ d.renewToken = r.supplied
        /\ d.userID = a
        /\ d.instanceID = users[a].instanceID
        /\ d.nextToken = NoToken
        /\ d.expiresAt > now
        /\ \A x \in served : x.token = r.supplied => x.userID = a

\* a token stored for an account of another instance was refused
C35_Witness ==
    \E a, b \in DOMAIN users :
        /\ users[a].instanceID # users[b].instanceID
        /\ RefusedOnRecordOf(a, b)

\* a token stored for another account of the same instance was refused
C35_WitnessSameInstance ==
    \E a, b \in DOMAIN users :
        /\ a # b
        /\ users[a].instanceID = users[b].instanceID
        /\ RefusedOnRecordOf(a, b)

-----------------------------------------------------------------------------
(* The signup cap under concurrent requests *)

\* the accounts of instance "i1" created in the 300 seconds that end at t
CreatedInWindow(t) ==
    {u \in DOMAIN users : /\ users[u].instanceID = "i1"
                          /\ users[u].createdAt > t - signupRateLimitWindow
                          /\ users[u].createdAt <= t}

\* C36: whatever the interleaving of concurrent signup requests, no window
\* of 300 seconds holds more new accounts than the configured cap.
C36_CapUnderConcurrency ==
    \A t \in {users[u].createdAt : u \in DOMAIN users} \cup {now} :
        Cardinality(CreatedInWindow(t)) <= maxNewUsersPer5Minute

\* two requests have passed the count and neither has reached AddUser
C36_WitnessBothPastTheCheck ==
    /\ \A w \in Workers : signupCalls[w].pc = "add"
    /\ signupCalls["w1"].email # signupCalls["w2"].email
    /\ Cardinality(CreatedInWindow(now)) = 0

-----------------------------------------------------------------------------
(* What verify-email writes *)

\* the account with the two timestamps verify-email sets blanked out
WithoutConfirmation(user, i) ==
    [user EXCEPT !.accountConfirmedAt = 0, !.contactInfos[i].confirmedAt = 0]

\* the request side: the checks and the confirmation are made on the copy
\* GetUser returned, for a token whose email is the account identifier, and
\* ReplaceUser writes that copy
C37_ConfirmsOnTheCopy ==
    [][\A w \in Workers :
        /\ VerifyEmailGetUser(w)
           => /\ users' = users
              /\ verifyCalls'[w].pc = "replace"
                 => LET r == verifyCalls[w].tokenInfos
                        u == r.userID
                        i == FirstContact(users[u], "email", users[u].accountID)
                        copy == verifyCalls'[w].user
                    IN  /\ {"type", "email"} \subseteq DOMAIN r.info
                        /\ r.info["email"] = users[u].accountID
                        /\ copy.contactInfos[i].confirmedAt = now
                        /\ users[u].type = "email" => copy.accountConfirmedAt = now
                        /\ now > 0
                        /\ WithoutConfirmation(copy, i) = WithoutConfirmation(users[u], i)
        /\ (VerifyEmailReplace(w) /\ ~VerifyEmailReplaceFails(w))
           => users' = [users EXCEPT ![verifyCalls[w].tokenInfos.userID] = verifyCalls[w].user]
    ]_vars

\* C37: verify-email writes the user store only when it answers with success
\* and only for a token whose email is the account identifier; the write sets
\* the confirmed-at of the matching contact and, for an email account, of the
\* account to a positive timestamp and changes no other field and no other
\* account.  A token whose email is another address of the user, or whose
\* info lacks type or email, changes nothing.
C37_VerifyEmailOwnIdentifierOnly ==
    [][\A w \in Workers :
        /\ \A tok \in PresentableTempTokens : VerifyEmailValidate(w, tok) => users' = users
        /\ VerifyEmailGetUser(w) => users' = users
        /\ VerifyEmailReplace(w)
           => IF VerifyEmailReplaceResponse(w).status # 200 THEN users' = users
              ELSE LET r == verifyCalls[w].tokenInfos
                       u == r.userID
                       i == FirstContact(users[u], "email", users[u].accountID)
                   IN  /\ {"type", "email"} \subseteq DOMAIN r.info
                       /\ r.info["email"] = users[u].accountID
                       /\ users'[u].contactInfos[i].confirmedAt > 0
                       /\ users[u].type = "email" => users'[u].accountConfirmedAt > 0
                       /\ WithoutConfirmation(users'[u], i) = WithoutConfirmation(users[u], i)
                       /\ \A v \in DOMAIN users \ {u} : users'[v] = users[v]
                       /\ DOMAIN users' = DOMAIN users
    ]_vars

\* a failed login was recorded after verify-email read the account and
\* before it wrote the account back
C37_WitnessFailureDuringVerify ==
    \E w \in Workers :
        /\ verifyCalls[w].pc = "replace"
        /\ ~VerifyEmailReplaceFails(w)
        /\ Len(users[verifyCalls[w].tokenInfos.userID].failedLoginAttempts)
               > Len(verifyCalls[w].user.failedLoginAttempts)

\* the account was deleted after verify-email read it: the write fails and
\* the request is answered with 500
C37_WitnessAccountGone ==
    \E w \in Workers :
        /\ verifyCalls[w].pc = "replace"
        /\ VerifyEmailReplaceFails(w)
        /\ VerifyEmailReplaceResponse(w) = ErrorResponse(500, "failed to update user")

\* the account's own address was confirmed after the first step of the
\* clock; its second address is still unconfirmed although a stored,
\* unexpired token names it, and so is refused
C37_Witness ==
    "u1" \in DOMAIN users /\
    LET user == users["u1"]
    IN  /\ user.accountConfirmedAt = now
        /\ now > StartTime
        /\ user.contactInfos[1].confirmedAt = now
        /\ \E i \in DOMAIN user.contactInfos :
               /\ user.contactInfos[i].email = "e2"
               /\ user.contactInfos[i].confirmedAt = 0
        /\ \E tok \in PresentableTempTokens :
               /\ TempTokenValid(tok, VerifyEmailPurposes)
               /\ validateTempToken(tok, VerifyEmailPurposes).info = ContactInfoOf("e2")
               /\ VerifyEmailResponse(tok) = ErrorResponse(400, "user does not match token")

-----------------------------------------------------------------------------
(* The cost parameters after InitArgonParamsFromEnv *)

\* C38: memory, iterations and parallelism are all at least 1 after any
\* call of InitArgonParamsFromEnv.
C38_CostParamsValid ==
    /\ argonParams.memory >= 1
    /\ argonParams.iterations >= 1
    /\ argonParams.parallelism >= 1

\* a value that is not positive leaves the parameter as it was, and memory
\* and iterations adopt the positive values of the environment
C38_NonPositiveIgnored ==
    [][\A a2m \in EnvMemory, a2i \in EnvIterations, a2p \in EnvParallelism :
        InitArgonParamsFromEnv(a2m, a2i, a2p)
        => /\ argonParams'.memory = IF a2m > 0 THEN a2m ELSE argonParams.memory
           /\ argonParams'.iterations = IF a2i > 0 THEN a2i ELSE argonParams.iterations
           /\ a2p <= 0 => argonParams'.parallelism = argonParams.parallelism
           /\ argonParams'.memory >= 1 /\ argonParams'.iterations >= 1
    ]_vars

\* parallelism 256 from the environment was narrowed to 0
C38_WitnessWrapped ==
    /\ argonParams.parallelism = 0
    /\ argonParams.memory = 32
    /\ argonParams.iterations = 2

-----------------------------------------------------------------------------
(* RemoveContactInfo when it returns an error *)

\* C39: whenever RemoveContactInfo returns an error, for the main address
\* and for an id no contact info has, the contact infos and the contact
\* preferences are what they were before the call.
C39_ErrorLeavesUserUnchanged ==
    \A id \in ContactIDs(users["u1"]) :
        LET user == users["u1"]
            after == RemoveContactInfo(user, id)
        IN  RemoveContactInfoError(user, id) # ""
                => /\ after.contactInfos = user.contactInfos
                   /\ after.sendNewsletterTo = user.sendNewsletterTo

\* the refusal of the main address changes nothing, and an unknown id never
\* changes the contact infos
C39_MainAddressUntouched ==
    \A id \in ContactIDs(users["u1"]) :
        LET user == users["u1"]
            after == RemoveContactInfo(user, id)
        IN  /\ RemoveContactInfoError(user, id) = "cannot remove main address"
                => after = user
            /\ RemoveContactInfoError(user, id) = "contact not found"
                => after.contactInfos = user.contactInfos

\* an id that no contact info has and that the contact preferences still
\* name: the call returns "contact not found" and drops one reference
C39_WitnessDanglingReference ==
    \E id \in ContactIDs(users["u1"]) :
        LET user == users["u1"]
        IN  /\ RemoveContactInfoError(user, id) = "contact not found"
            /\ id \in Referenced(user)
            /\ Len(RemoveContactInfo(user, id).sendNewsletterTo)
                   = Len(user.sendNewsletterTo) - 1

====
